---- MODULE Spec2Model ----
(***************************************************************************)
(* Federated literature search of sciena: synonym expansion, source        *)
(* adapters, the sequential and the thread-pool orchestrators,             *)
(* deduplication and relevance ranking                                     *)
(* (src/data_acquisition/multi_database_client.py).                        *)
(*                                                                         *)
(* A Python str is modelled as a sequence of one-character strings, so     *)
(* that strip, replace, split, lower, the regular expressions and the      *)
(* substring test are computed the way the code computes them.             *)
(***************************************************************************)
EXTENDS Integers, Sequences, FiniteSets, TLC

(***************************************************************************)
(* Bounds of the model.                                                    *)
(***************************************************************************)
\* longest compound name drawn exhaustively from NameAlphabet
MaxNameLen == 3
\* longest list of studies handed to the deduplicator and the ranker
MaxStudies == 3
\* number of clients the engine of the orchestration specification holds
NumClients == 2
\* most records a mocked client returns for one term
MaxResponseLen == 2
MaxRun == 20
NumThreads == 2
ClockGrain == 2

(***************************************************************************)
(* Characters and the str methods the code uses.                           *)
(***************************************************************************)
UpperChars == <<"A","B","C","D","E","F","G","H","I","J","K","L","M",
                "N","O","P","Q","R","S","T","U","V","W","X","Y","Z">>
LowerChars == <<"a","b","c","d","e","f","g","h","i","j","k","l","m",
                "n","o","p","q","r","s","t","u","v","w","x","y","z">>
\* [A-Za-z]
Letters == {UpperChars[i] : i \in DOMAIN UpperChars} \cup {LowerChars[i] : i \in DOMAIN LowerChars}
\* \d
Digits == {"0","1","2","3","4","5","6","7","8","9"}
\* \s (the model's alphabets hold the blank as their only whitespace)
Spaces == {" "}

ToLowerChar(c) ==
  IF \E i \in DOMAIN UpperChars : UpperChars[i] = c
  THEN LowerChars[CHOOSE i \in DOMAIN UpperChars : UpperChars[i] = c]
  ELSE c

\* str.lower()
RECURSIVE lower(_)
lower(s) == IF s = <<>> THEN <<>> ELSE <<ToLowerChar(Head(s))>> \o lower(Tail(s))

RECURSIVE lstrip(_)
lstrip(s) == IF s # <<>> /\ Head(s) \in Spaces THEN lstrip(Tail(s)) ELSE s

RECURSIVE rstrip(_)
rstrip(s) == IF s # <<>> /\ s[Len(s)] \in Spaces THEN rstrip(SubSeq(s, 1, Len(s) - 1)) ELSE s

\* str.strip()
strip(s) == rstrip(lstrip(s))

\* str.replace(old, new) for a one-character old
RECURSIVE replace(_, _, _)
replace(s, old, new) ==
  IF s = <<>> THEN <<>>
  ELSE (IF Head(s) = old THEN new ELSE <<Head(s)>>) \o replace(Tail(s), old, new)

\* the index after the longest run of characters of S that starts at i
SpanEnd(s, i, S) ==
  CHOOSE j \in i..(Len(s) + 1) :
    /\ (j = Len(s) + 1 \/ s[j] \notin S)
    /\ \A k \in i..(j - 1) : s[k] \in S

\* str.split(): the maximal runs of non-blank characters
RECURSIVE split(_)
split(s) ==
  LET t == lstrip(s) IN
  IF t = <<>> THEN <<>>
  ELSE LET e == CHOOSE j \in 1..(Len(t) + 1) :
                  /\ (j = Len(t) + 1 \/ t[j] \in Spaces)
                  /\ \A k \in 1..(j - 1) : t[k] \notin Spaces
       IN <<SubSeq(t, 1, e - 1)>> \o split(SubSeq(t, e, Len(t)))

\* the Python test `sub in text`
IsSubstring(sub, text) ==
  \E i \in 0..(Len(text) - Len(sub)) : SubSeq(text, i + 1, i + Len(sub)) = sub

Range(f) == {f[i] : i \in DOMAIN f}

(***************************************************************************)
(* CompoundSynonymManager                                                  *)
(***************************************************************************)
\* _load_comprehensive_synonyms: <<key, aliases>> pairs of the dictionary
synonym_db ==
  <<
     <<<<"R","A","D","-","1","4","0">>,
       <<<<"T","e","s","t","o","l","o","n","e">>,
         <<"R","A","D","1","4","0">>,
         <<"R","A","D"," ","1","4","0">>,
         <<"V","o","s","i","l","a","s","a","r","m">>>>>>,
     <<<<"L","G","D","-","4","0","3","3">>,
       <<<<"L","i","g","a","n","d","r","o","l">>,
         <<"L","G","D","4","0","3","3">>,
         <<"L","G","D"," ","4","0","3","3">>,
         <<"V","K","5","2","1","1">>>>>>,
     <<<<"M","K","-","2","8","6","6">>,
       <<<<"O","s","t","a","r","i","n","e">>,
         <<"E","n","o","b","o","s","a","r","m">>,
         <<"G","T","x","-","0","2","4">>,
         <<"M","K","2","8","6","6">>>>>>,
     <<<<"S","-","4">>,
       <<<<"A","n","d","a","r","i","n","e">>,
         <<"S","4">>,
         <<"G","T","x","-","0","0","7">>>>>>,
     <<<<"G","W","-","5","0","1","5","1","6">>,
       <<<<"C","a","r","d","a","r","i","n","e">>,
         <<"G","W","5","0","1","5","1","6">>,
         <<"G","W"," ","5","0","1","5","1","6">>,
         <<"E","n","d","u","r","o","b","o","l">>>>>>,
     <<<<"M","K","-","6","7","7">>,
       <<<<"I","b","u","t","a","m","o","r","e","n">>,
         <<"N","u","t","r","o","b","a","l">>,
         <<"M","K","6","7","7">>,
         <<"L","-","1","6","3","1","9","1">>>>>>,
     <<<<"S","R","9","0","0","9">>,
       <<<<"S","t","e","n","a","b","o","l","i","c">>,
         <<"S","R","-","9","0","0","9">>,
         <<"S","R"," ","9","0","0","9">>>>>>,
     <<<<"Y","K","-","1","1">>,
       <<<<"Y","K","1","1">>,
         <<"Y","K"," ","1","1">>>>>>,
     <<<<"S","-","2","3">>,
       <<<<"S","2","3">>,
         <<"S"," ","2","3">>>>>>,
     <<<<"L","G","D","-","3","3","0","3">>,
       <<<<"L","G","D","3","3","0","3">>,
         <<"L","G","D"," ","3","3","0","3">>>>>>,
     <<<<"B","P","C","-","1","5","7">>,
       <<<<"B","o","d","y"," ","P","r","o","t","e","c","t","i","o","n"," ","C","o","m","p","o","u","n","d">>,
         <<"P","e","n","t","a","d","e","c","a","p","e","p","t","i","d","e"," ","B","P","C"," ","1","5","7">>,
         <<"B","P","C","1","5","7">>,
         <<"B","P","C"," ","1","5","7">>>>>>,
     <<<<"T","B","-","5","0","0">>,
       <<<<"T","h","y","m","o","s","i","n"," ","B","e","t","a","-","4">>,
         <<"T","β","4">>,
         <<"T","B","5","0","0">>,
         <<"T","h","y","m","o","s","i","n"," ","β","4">>>>>>,
     <<<<"C","J","C","-","1","2","9","5">>,
       <<<<"C","J","C","1","2","9","5">>,
         <<"C","J","C"," ","1","2","9","5">>,
         <<"M","o","d","i","f","i","e","d"," ","G","R","F"," ","1","-","2","9">>>>>>,
     <<<<"I","p","a","m","o","r","e","l","i","n">>,
       <<<<"N","N","C"," ","2","6","-","0","1","6","1">>,
         <<"I","p","a","m","o","r","e","l","i","n"," ","a","c","e","t","a","t","e">>>>>>,
     <<<<"G","H","R","P","-","6">>,
       <<<<"G","r","o","w","t","h"," ","H","o","r","m","o","n","e"," ","R","e","l","e","a","s","i","n","g"," ","P","e","p","t","i","d","e","-","6">>,
         <<"G","H","R","P","6">>>>>>,
     <<<<"G","H","R","P","-","2">>,
       <<<<"G","r","o","w","t","h"," ","H","o","r","m","o","n","e"," ","R","e","l","e","a","s","i","n","g"," ","P","e","p","t","i","d","e","-","2">>,
         <<"G","H","R","P","2">>>>>>,
     <<<<"S","e","r","m","o","r","e","l","i","n">>,
       <<<<"G","R","F"," ","1","-","2","9">>,
         <<"G","H","R","H"," ","1","-","2","9">>,
         <<"G","r","o","w","t","h"," ","H","o","r","m","o","n","e"," ","R","e","l","e","a","s","i","n","g"," ","H","o","r","m","o","n","e">>>>>>,
     <<<<"P","T","-","1","4","1">>,
       <<<<"B","r","e","m","e","l","a","n","o","t","i","d","e">>,
         <<"P","T","1","4","1">>,
         <<"P","T"," ","1","4","1">>>>>>,
     <<<<"M","e","l","a","n","o","t","a","n"," ","I","I">>,
       <<<<"M","T","-","I","I">>,
         <<"M","T","2">>,
         <<"M","e","l","a","n","o","t","a","n"," ","2">>>>>>,
     <<<<"H","e","x","a","r","e","l","i","n">>,
       <<<<"E","x","a","m","o","r","e","l","i","n">>,
         <<"L","-","6","9","2","4","2","9">>>>>>,
     <<<<"A","O","D","-","9","6","0","4">>,
       <<<<"A","O","D","9","6","0","4">>,
         <<"h","G","H"," ","F","r","a","g","m","e","n","t"," ","1","7","6","-","1","9","1">>>>>>,
     <<<<"M","G","F">>,
       <<<<"M","e","c","h","a","n","o"," ","G","r","o","w","t","h"," ","F","a","c","t","o","r">>,
         <<"I","G","F","-","1","E","c">>>>>>,
     <<<<"P","E","G","-","M","G","F">>,
       <<<<"P","e","g","y","l","a","t","e","d"," ","M","e","c","h","a","n","o"," ","G","r","o","w","t","h"," ","F","a","c","t","o","r">>>>>>,
     <<<<"F","o","l","l","i","s","t","a","t","i","n">>,
       <<<<"F","S","T">>,
         <<"A","c","t","i","v","i","n","-","b","i","n","d","i","n","g"," ","P","r","o","t","e","i","n">>>>>>,
     <<<<"A","C","E","-","0","3","1">>,
       <<<<"M","y","o","s","t","a","t","i","n"," ","I","n","h","i","b","i","t","o","r">>,
         <<"A","C","V","R","2","B">>>>>>,
     <<<<"E","p","i","t","a","l","o","n">>,
       <<<<"E","p","i","t","h","a","l","o","n">>,
         <<"A","l","a","n","y","l","-","g","l","u","t","a","m","y","l","-","a","s","p","a","r","t","y","l","-","g","l","y","c","i","n","e">>>>>>,
     <<<<"G","H","K","-","C","u">>,
       <<<<"C","o","p","p","e","r"," ","P","e","p","t","i","d","e">>,
         <<"G","l","y","-","H","i","s","-","L","y","s","-","C","u">>,
         <<"G","H","K"," ","C","o","p","p","e","r">>>>>>,
     <<<<"2","-","o","x","o","-","1","-","p","y","r","r","o","l","i","d","i","n","e"," ","a","c","e","t","a","m","i","d","e">>,
       <<<<"P","i","r","a","c","e","t","a","m">>,
         <<"N","o","o","t","r","o","p","i","l">>>>>>,
     <<<<"1","-","(","4","-","m","e","t","h","o","x","y","b","e","n","z","o","y","l",")","-","2","-","p","y","r","r","o","l","i","d","i","n","o","n","e">>,
       <<<<"A","n","i","r","a","c","e","t","a","m">>,
         <<"D","r","a","g","a","n","o","n">>>>>>,
     <<<<"4","-","h","y","d","r","o","x","y","-","2","-","o","x","o","p","y","r","r","o","l","i","d","i","n","e","-","N","-","a","c","e","t","a","m","i","d","e">>,
       <<<<"O","x","i","r","a","c","e","t","a","m">>,
         <<"N","e","u","r","a","c","t","i","v">>>>>>,
     <<<<"2","-","[","(","d","i","p","h","e","n","y","l","m","e","t","h","y","l",")","s","u","l","f","i","n","y","l","]","a","c","e","t","a","m","i","d","e">>,
       <<<<"M","o","d","a","f","i","n","i","l">>,
         <<"P","r","o","v","i","g","i","l">>>>>>,
     <<<<"N","-","[","2","-","(","d","i","i","s","o","p","r","o","p","y","l","a","m","i","n","o",")","e","t","h","y","l","]","-","2","-","o","x","o","-","1","-","p","y","r","r","o","l","i","d","i","n","e","a","c","e","t","a","m","i","d","e">>,
       <<<<"P","r","a","m","i","r","a","c","e","t","a","m">>>>>>,
     <<<<"4","-","p","h","e","n","y","l","-","2","-","o","x","o","p","y","r","r","o","l","i","d","i","n","e","-","1","-","a","c","e","t","a","m","i","d","e">>,
       <<<<"P","h","e","n","y","l","p","i","r","a","c","e","t","a","m">>,
         <<"C","a","r","p","h","e","d","o","n">>>>>>,
     <<<<"2","-","b","e","n","z","h","y","d","r","y","l","s","u","l","f","i","n","y","l","-","N","-","h","y","d","r","o","x","y","a","c","e","t","a","m","i","d","e">>,
       <<<<"A","d","r","a","f","i","n","i","l">>,
         <<"O","l","m","i","f","o","n">>>>>>,
     <<<<"b","i","s","f","l","u","o","r","o","m","o","d","a","f","i","n","i","l">>,
       <<<<"F","l","m","o","d","a","f","i","n","i","l">>,
         <<"C","R","L","-","4","0",",","9","4","0">>>>>>,
     <<<<"1","-","b","e","n","z","o","y","l","-","4","-","p","r","o","p","a","n","o","y","l","p","i","p","e","r","a","z","i","n","e">>,
       <<<<"S","u","n","i","f","i","r","a","m">>,
         <<"D","M","-","2","3","5">>>>>>,
     <<<<"L","-","A","l","p","h","a"," ","g","l","y","c","e","r","y","l","p","h","o","s","p","h","o","r","y","l","c","h","o","l","i","n","e">>,
       <<<<"A","l","p","h","a","-","G","P","C">>,
         <<"C","h","o","l","i","n","e"," ","A","l","f","o","s","c","e","r","a","t","e">>>>>>,
     <<<<"C","y","t","i","d","i","n","e"," ","5","-","d","i","p","h","o","s","p","h","o","c","h","o","l","i","n","e">>,
       <<<<"C","D","P","-","C","h","o","l","i","n","e">>,
         <<"C","i","t","i","c","o","l","i","n","e">>>>>>,
     <<<<"2","-","(","D","i","m","e","t","h","y","l","a","m","i","n","o",")","e","t","h","a","n","o","l">>,
       <<<<"D","M","A","E">>,
         <<"D","i","m","e","t","h","y","l","a","m","i","n","o","e","t","h","a","n","o","l">>>>>>,
     <<<<"4","-","a","m","i","n","o","-","3","-","p","h","e","n","y","l","b","u","t","y","r","i","c"," ","a","c","i","d">>,
       <<<<"P","h","e","n","i","b","u","t">>,
         <<"β","-","p","h","e","n","y","l","-","G","A","B","A">>>>>>,
     <<<<"N","i","c","o","t","i","n","o","y","l","-","G","A","B","A">>,
       <<<<"P","i","c","a","m","i","l","o","n">>,
         <<"P","i","k","a","m","i","l","o","n">>>>>>,
     <<<<"C","r","e","a","t","i","n","e"," ","M","o","n","o","h","y","d","r","a","t","e">>,
       <<<<"C","r","e","a","t","i","n","e">>,
         <<"N","-","m","e","t","h","y","l","g","u","a","n","i","d","i","n","o"," ","a","c","e","t","i","c"," ","a","c","i","d">>>>>>,
     <<<<"B","e","t","a","-","A","l","a","n","i","n","e">>,
       <<<<"β","-","A","l","a","n","i","n","e">>,
         <<"3","-","a","m","i","n","o","p","r","o","p","a","n","o","i","c"," ","a","c","i","d">>>>>>,
     <<<<"L","-","C","i","t","r","u","l","l","i","n","e">>,
       <<<<"C","i","t","r","u","l","l","i","n","e">>,
         <<"2","-","A","m","i","n","o","-","5","-","(","c","a","r","b","a","m","o","y","l","a","m","i","n","o",")","p","e","n","t","a","n","o","i","c"," ","a","c","i","d">>>>>>,
     <<<<"A","s","h","w","a","g","a","n","d","h","a">>,
       <<<<"W","i","t","h","a","n","i","a"," ","s","o","m","n","i","f","e","r","a">>,
         <<"I","n","d","i","a","n"," ","W","i","n","t","e","r"," ","C","h","e","r","r","y">>>>>>,
     <<<<"R","h","o","d","i","o","l","a"," ","R","o","s","e","a">>,
       <<<<"G","o","l","d","e","n"," ","R","o","o","t">>,
         <<"A","r","c","t","i","c"," ","R","o","o","t">>,
         <<"R","o","s","e"," ","R","o","o","t">>>>>>,
     <<<<"B","a","c","o","p","a"," ","M","o","n","n","i","e","r","i">>,
       <<<<"B","r","a","h","m","i">>,
         <<"W","a","t","e","r"," ","H","y","s","s","o","p">>>>>>,
     <<<<"L","i","o","n","'","s"," ","M","a","n","e">>,
       <<<<"H","e","r","i","c","i","u","m"," ","e","r","i","n","a","c","e","u","s">>,
         <<"B","e","a","r","d","e","d"," ","T","o","o","t","h"," ","M","u","s","h","r","o","o","m">>>>>>
  >>

InSynonymDb(name) == \E i \in DOMAIN synonym_db : synonym_db[i][1] = name
SynonymsOf(name) == synonym_db[CHOOSE i \in DOMAIN synonym_db : synonym_db[i][1] = name][2]
SynonymKeys == {synonym_db[i][1] : i \in DOMAIN synonym_db}

\* variations[:8]
MaxVariations == 8
\* len(words) > 2
MinWords == 2
\* len(words[0]) > 4
MinFirstWordLen == 4

\* re.sub(r'\s*\([^)]*\)\s*', ' ', name), scanning from index i
RECURSIVE sub_parens(_, _)
sub_parens(s, i) ==
  IF i > Len(s) THEN <<>>
  ELSE LET j == SpanEnd(s, i, Spaces) IN
       IF j <= Len(s) /\ s[j] = "(" /\ \E k \in (j + 1)..Len(s) : s[k] = ")"
       THEN LET k == CHOOSE k \in (j + 1)..Len(s) :
                       s[k] = ")" /\ \A l \in (j + 1)..(k - 1) : s[l] # ")"
            IN <<" ">> \o sub_parens(s, SpanEnd(s, k + 1, Spaces))
       ELSE <<s[i]>> \o sub_parens(s, i + 1)

\* re.search(r'([A-Za-z]+)[- ]?(\d+)', name) can match with its letters
\* group starting at i
NumberMatchAt(s, i) ==
  /\ s[i] \in Letters
  /\ LET j == SpanEnd(s, i, Letters) IN
       \/ j <= Len(s) /\ s[j] \in Digits
       \/ j + 1 <= Len(s) /\ s[j] \in {"-", " "} /\ s[j + 1] \in Digits

\* the groups <<letters, numbers>> of the leftmost match, << >> without one
number_match(s) ==
  IF \E i \in 1..Len(s) : NumberMatchAt(s, i)
  THEN LET i == CHOOSE i \in 1..Len(s) :
                  NumberMatchAt(s, i) /\ \A k \in 1..(i - 1) : ~NumberMatchAt(s, k)
           j == SpanEnd(s, i, Letters)
           d == IF s[j] \in Digits THEN j ELSE j + 1
       IN <<SubSeq(s, i, j - 1), SubSeq(s, d, SpanEnd(s, d, Digits) - 1)>>
  ELSE <<>>

generate_algorithmic_variations(name) ==
  LET hyphens == IF "-" \in Range(name)
                 THEN <<replace(name, "-", <<" ">>), replace(name, "-", <<>>)>>
                 ELSE <<>>
      no_parens == strip(sub_parens(name, 1))
      parens == IF no_parens # name THEN <<no_parens>> ELSE <<>>
      m == number_match(name)
      codes == IF m # <<>>
               THEN <<m[1] \o <<"-">> \o m[2], m[1] \o <<" ">> \o m[2], m[1] \o m[2]>>
               ELSE <<>>
      words == split(name)
      first == IF Len(words) > MinWords /\ Len(words[1]) > MinFirstWordLen
               THEN <<words[1]>> ELSE <<>>
  IN hyphens \o parens \o codes \o first

\* the seed lost: variations = []
seed_variations_empty(compound_name) == <<>>

\* variations = [compound_name.strip()]
seed_variations(compound_name) == <<strip(compound_name)>>

\* the sort left out: any arrangement of the set
RECURSIVE sort_by_len_skipped(_)
sort_by_len_skipped(S) ==
  IF S = {} THEN {<<>>}
  ELSE UNION {{<<x>> \o r : r \in sort_by_len_skipped(S \ {x})} : x \in S}

\* list(set(...)) followed by the stable variations.sort(key=len): the order
\* of equally long terms is the set's iteration order, which the language
\* leaves open, so every length-sorted arrangement is a possible outcome
RECURSIVE sort_by_len(_)
sort_by_len(S) ==
  IF S = {} THEN {<<>>}
  ELSE LET shortest == {x \in S : \A y \in S : Len(x) <= Len(y)}
       IN UNION {{<<x>> \o r : r \in sort_by_len(S \ {x})} : x \in shortest}

Truncate(s, n) == SubSeq(s, 1, IF Len(s) < n THEN Len(s) ELSE n)

\* the lists get_search_variations can return for compound_name
get_search_variations(compound_name) ==
  LET variations == seed_variations(compound_name)
                    \o (IF InSynonymDb(compound_name) THEN SynonymsOf(compound_name) ELSE <<>>)
                    \o generate_algorithmic_variations(compound_name)
      cleaned == {strip(variations[i]) : i \in DOMAIN variations} \ {<<>>}
  IN {Truncate(o, MaxVariations) : o \in sort_by_len(cleaned)}

(***************************************************************************)
(* StudyResult                                                             *)
(***************************************************************************)
\* Optional[...] values: None is << >>, a value x is <<x>>
None == <<>>
Some(x) == <<x>>
\* Python truth value of an Optional[str] (None and "" are false)
TruthyStr(o) == o # None /\ o[1] # ""
\* Python truth value of an Optional[str] held as a sequence of characters
TruthyText(o) == o # None /\ o[1] # <<>>
\* Python truth value of an Optional[int] (None and 0 are false)
TruthyInt(o) == o # None /\ o[1] # 0

\* re.sub(r'<[^>]+>', '', text), scanning from index i
RECURSIVE strip_tags(_, _)
strip_tags(s, i) ==
  IF i > Len(s) THEN <<>>
  ELSE IF s[i] = "<" /\ \E k \in (i + 2)..Len(s) :
                           s[k] = ">" /\ \A l \in (i + 1)..(k - 1) : s[l] # ">"
       THEN strip_tags(s, 1 + CHOOSE k \in (i + 2)..Len(s) :
                                 s[k] = ">" /\ \A l \in (i + 1)..(k - 1) : s[l] # ">")
       ELSE <<s[i]>> \o strip_tags(s, i + 1)

\* re.sub(r'\s+', ' ', text)
RECURSIVE collapse_ws(_)
collapse_ws(s) ==
  IF s = <<>> THEN <<>>
  ELSE IF Head(s) \in Spaces THEN <<" ">> \o collapse_ws(lstrip(s))
       ELSE <<Head(s)>> \o collapse_ws(Tail(s))

\* StudyResult._clean_text on an Optional[str]
clean_text(text) ==
  IF text = None \/ text[1] = <<>> THEN <<>>
  ELSE strip(collapse_ws(strip_tags(text[1], 1)))

\* the dataclass constructor followed by __post_init__
StudyResult(title, abstract, publication_year, pmid, doi, source_database, study_type, citations_count) ==
  [title |-> clean_text(title), abstract |-> clean_text(abstract),
   publication_year |-> publication_year, pmid |-> pmid, doi |-> doi,
   source_database |-> source_database, study_type |-> study_type,
   citations_count |-> citations_count]

Ostarine == <<"O","s","t","a","r","i","n","e">>
TitleMuscle == <<"O","s","t","a","r","i","n","e"," ","e","f","f","e","c","t","s"," ","o","n"," ","m","u","s","c","l","e">>
TitleElderly == <<"O","s","t","a","r","i","n","e"," ","i","n"," ","e","l","d","e","r","l","y">>
TitleElderlyRaw == <<" ","o","s","t","a","r","i","n","e"," "," ","I","N"," ","<","i",">","e","l","d","e","r","l","y","<","/","i",">"," ">>
TitleRats == <<"S","A","R","M"," ","i","n"," ","r","a","t","s">>
TitleMice == <<"S","A","R","M"," ","i","n"," ","m","i","c","e">>
AbstractTrial == <<"A"," ","t","r","i","a","l"," ","o","f"," ","o","s","t","a","r","i","n","e">>

\* hashlib.md5(text.encode()).hexdigest(): MD5 is taken to be free of
\* collisions, the digest of a text being a pair <<hexdigest()[:12], rest>>
\* that stands for the 32 hex digits; the 12-digit prefixes of two different
\* digests can coincide, which the model lets happen for one pair of titles
md5_hexdigest(text) ==
  <<IF text \in {lower(TitleRats), lower(TitleMice)} THEN <<"c","0">> ELSE text, text>>

\* get_unique_id looking at the doi before the pmid
get_unique_id_doi_first(study) ==
  IF TruthyStr(study.doi) THEN <<"doi_", study.doi[1]>>
  ELSE IF TruthyStr(study.pmid) THEN <<"pmid_", study.pmid[1]>>
  ELSE <<"title_", md5_hexdigest(lower(study.title))[1]>>

\* StudyResult.get_unique_id
get_unique_id(study) ==
  IF TruthyStr(study.pmid) THEN <<"pmid_", study.pmid[1]>>
  ELSE IF TruthyStr(study.doi) THEN <<"doi_", study.doi[1]>>
  ELSE <<"title_", md5_hexdigest(lower(study.title))[1]>>

(***************************************************************************)
(* MultiDatabaseSearchEngine._deduplicate_studies                          *)
(***************************************************************************)
\* seen_ids.add(unique_id) forgotten
seen_ids_add_lost(seen_ids, unique_id) == seen_ids

\* seen_ids.add(unique_id)
seen_ids_add(seen_ids, unique_id) == seen_ids \cup {unique_id}

\* an iteration that puts a record whose id was seen in the place of the
\* record kept for that id
dedup_step_keep_last(st, study) ==
  IF get_unique_id(study) \in st.seen_ids
  THEN [st EXCEPT !.unique_studies =
          [k \in DOMAIN st.unique_studies |->
             IF get_unique_id(st.unique_studies[k]) = get_unique_id(study)
             THEN study ELSE st.unique_studies[k]]]
  ELSE [seen_ids |-> st.seen_ids \cup {get_unique_id(study)},
        title_hashes |-> st.title_hashes,
        unique_studies |-> Append(st.unique_studies, study)]

\* the title check applied to every record, whatever its id
startswith_title_always(unique_id) == TRUE

\* unique_id.startswith('title_')
startswith_title(unique_id) == unique_id[1] = "title_"

\* one iteration of the loop over studies on the loop state
\* [seen_ids, title_hashes, unique_studies]
dedup_step(st, study) ==
  LET unique_id == get_unique_id(study)
      title_hash == md5_hexdigest(lower(study.title))
  IN IF unique_id \in st.seen_ids THEN st
     ELSE IF startswith_title(unique_id) /\ title_hash \in st.title_hashes THEN st
     ELSE [seen_ids |-> seen_ids_add(st.seen_ids, unique_id),
           title_hashes |-> IF startswith_title(unique_id)
                            THEN st.title_hashes \cup {title_hash}
                            ELSE st.title_hashes,
           unique_studies |-> Append(st.unique_studies, study)]

RECURSIVE dedup_loop(_, _, _)
dedup_loop(st, studies, i) ==
  IF i > Len(studies) THEN st
  ELSE dedup_loop(dedup_step(st, studies[i]), studies, i + 1)

deduplicate_studies(studies) ==
  dedup_loop([seen_ids |-> {}, title_hashes |-> {}, unique_studies |-> <<>>],
             studies, 1).unique_studies

(***************************************************************************)
(* MultiDatabaseSearchEngine._rank_studies; scores are kept in tenths      *)
(***************************************************************************)
study_type_scores(study_type) ==
  CASE study_type = "Randomized Controlled Trial" -> 80
    [] study_type = "Meta-Analysis" -> 70
    [] study_type = "Systematic Review" -> 60
    [] study_type = "Cohort Study" -> 50
    [] study_type = "Case-Control Study" -> 40
    [] study_type = "Clinical Trial" -> 60
    [] study_type = "Review" -> 30
    [] study_type = "Observational Study" -> 20
    [] study_type = "Animal Study" -> 10
    [] study_type = "In Vitro Study" -> 5
    [] OTHER -> 10

db_scores(source_database) ==
  CASE source_database = "PubMed" -> 50
    [] source_database = "Europe PMC" -> 40
    [] source_database = "Semantic Scholar" -> 30
    [] source_database = "ClinicalTrials.gov" -> 40
    [] source_database = "CrossRef" -> 20
    [] source_database = "bioRxiv" -> 10
    [] source_database = "medRxiv" -> 10
    [] OTHER -> 10

Min(a, b) == IF a < b THEN a ELSE b

\* calculate_relevance_score without the points for the title and abstract
relevance_score_untitled(study, compound_name) ==
  study_type_scores(study.study_type) + db_scores(study.source_database)

calculate_relevance_score(study, compound_name) ==
    (IF IsSubstring(lower(compound_name), lower(study.title)) THEN 100 ELSE 0)
  + (IF IsSubstring(lower(compound_name), lower(study.abstract)) THEN 50 ELSE 0)
  + study_type_scores(study.study_type)
  + db_scores(study.source_database)
  + (IF TruthyInt(study.citations_count) THEN Min(study.citations_count[1], 50) ELSE 0)
  + (IF TruthyInt(study.publication_year) /\ study.publication_year[1] >= 2020 THEN 20
     ELSE IF TruthyInt(study.publication_year) /\ study.publication_year[1] >= 2015 THEN 10
     ELSE 0)

\* the sort key of every study, computed once per study as list.sort does
RECURSIVE relevance_scores(_, _)
relevance_scores(studies, compound_name) ==
  IF studies = <<>> THEN <<>>
  ELSE <<calculate_relevance_score(Head(studies), compound_name)>>
       \o relevance_scores(Tail(studies), compound_name)

\* _rank_studies without the sort
rank_studies_unsorted(studies, compound_name) == studies

\* studies.sort(key=calculate_relevance_score, reverse=True): a stable sort,
\* study i lands behind the studies that score higher and behind the equally
\* scored studies that precede it
rank_studies(studies, compound_name) ==
  LET keys == relevance_scores(studies, compound_name)
      pos(i) == 1 + Cardinality({j \in DOMAIN studies :
                                   keys[j] > keys[i] \/ (keys[j] = keys[i] /\ j < i)})
      order == [k \in DOMAIN studies |-> CHOOSE i \in DOMAIN studies : pos(i) = k]
  IN [k \in DOMAIN studies |-> studies[order[k]]]

(***************************************************************************)
(* MultiDatabaseSearchEngine with mocked clients                           *)
(***************************************************************************)
\* self.database_priority; self.clients holds the same names in this order
database_priority ==
  <<"pubmed", "europepmc", "semantic_scholar", "crossref", "clinical_trials", "biorxiv">>

\* source_database of the records each client builds
client_source ==
  <<"PubMed", "Europe PMC", "Semantic Scholar", "CrossRef", "ClinicalTrials.gov", "Biorxiv">>

\* the engine of the model holds the first NumClients clients
Clients == 1..NumClients

\* search_terms[:3]
ParallelTerms == 3
\* ThreadPoolExecutor(max_workers=6); the model submits no more units than
\* this, so every submitted unit has a worker thread at once
max_workers == 6
\* len(db_studies) >= min_per_database * 2
ThresholdFactor == 2

\* what the mocked providers know: a client asked for a term answers with
\* some of these papers, as records carrying its own source_database
Papers ==
  << [title |-> Some(TitleMuscle), abstract |-> Some(AbstractTrial),
      publication_year |-> Some(2021), pmid |-> Some("111"), doi |-> None,
      study_type |-> "Randomized Controlled Trial", citations_count |-> None],
     [title |-> Some(TitleElderly), abstract |-> None,
      publication_year |-> Some(2016), pmid |-> None, doi |-> Some("10.1/x"),
      study_type |-> "Cohort Study", citations_count |-> None],
     [title |-> Some(TitleRats), abstract |-> None,
      publication_year |-> Some(2014), pmid |-> None, doi |-> None,
      study_type |-> "Animal Study", citations_count |-> None] >>

MockStudy(c, p) ==
  StudyResult(p.title, p.abstract, p.publication_year, p.pmid, p.doi,
              client_source[c], p.study_type, p.citations_count)

\* the behaviour of a mocked client.search(term, ...): it raises, or returns
\* count papers; Unset marks a pair (client, term) not yet asked
Unset == [kind |-> "unset", count |-> 0]
Raises == [kind |-> "raise", count |-> 0]
Returns(k) == [kind |-> "list", count |-> k]
Outcomes == {Raises} \cup {Returns(k) : k \in 0..MaxResponseLen}

\* a mock tells the compound's own (trimmed) name from its other variants
TermClass(term, compound) == IF term = strip(compound) THEN "name" ELSE "variant"
MockKeys == Clients \X {"name", "variant"}

\* the first paper of the list a mocked client returns for a class of terms:
\* asked for the compound's name the clients find the same papers, as many as
\* each returns; asked for a variant they find overlapping lists
PaperOffset(k) == IF k[2] = "name" THEN 0 ELSE k[1]

\* client.search(term, ...): the list the client of key k returns under
\* outcome o (o.kind = "list")
MockStudies == [c \in Clients |-> [i \in DOMAIN Papers |-> MockStudy(c, Papers[i])]]
client_search(k, o) ==
  [i \in 1..o.count |-> MockStudies[k[1]][((PaperOffset(k) + i - 1) % Len(Papers)) + 1]]

\* _search_single: an exception of client.search is logged and [] returned
search_single(k, o) == IF o.kind = "raise" THEN <<>> ELSE client_search(k, o)

\* the loop over the terms left as soon as the client gave min_per_database
\* records
enough_at_minimum(n, min_wanted) == n >= min_wanted

\* if len(db_studies) >= min_per_database * 2: break
enough_from_database(n, min_wanted) == n >= min_wanted * ThresholdFactor

\* an append that overwrites what the list held
extend_overwriting(list, more) == more

\* all_studies.extend(studies)
extend(list, more) == list \o more

\* the loop over the clients never left early
enough_in_total_never(n, limit) == FALSE

\* if len(all_studies) >= max_results: break
enough_in_total(n, limit) == n >= limit

\* search_comprehensive, `except Exception: ... continue` left out of the
\* loop over the terms: an exception ends the loop
after_search_error_break(term_idx, n_terms) == n_terms + 1

\* search_comprehensive, `except Exception: ... continue`: the index of the
\* term tried after the search of term_idx raised
after_search_error(term_idx, n_terms) == term_idx + 1

\* the end of a search without the deduplication
final_result_keep_all(studies_in, compound, limit) ==
  Truncate(rank_studies(studies_in, compound), limit)

\* ranked_studies[:max_results] of the deduplicated, ranked all_studies
final_result(studies_in, compound, limit) ==
  Truncate(rank_studies(deduplicate_studies(studies_in), compound), limit)

(***************************************************************************)
(* AdvancedEvidenceGrader                                                  *)
(***************************************************************************)
\* f"{x}" of an Optional[str]: None prints as "None"
format_str(o) == IF o = None THEN <<"N","o","n","e">> ELSE o[1]

\* any(term in text for term in terms)
any_in(terms, text) == \E i \in DOMAIN terms : IsSubstring(terms[i], text)

\* the term lists of _classify_study_type_advanced
meta_terms == <<<<"m","e","t","a","-","a","n","a","l","y","s","i","s">>, <<"m","e","t","a"," ","a","n","a","l","y","s","i","s">>, <<"m","e","t","a","n","a","l","y","s","i","s">>>>
rct_terms == <<<<"r","a","n","d","o","m","i","z","e","d"," ","c","o","n","t","r","o","l","l","e","d"," ","t","r","i","a","l">>, <<"r","a","n","d","o","m","i","s","e","d"," ","c","o","n","t","r","o","l","l","e","d"," ","t","r","i","a","l">>>>
clinical_terms == <<<<"c","l","i","n","i","c","a","l"," ","t","r","i","a","l">>, <<"p","h","a","s","e"," ","i">>, <<"p","h","a","s","e"," ","i","i">>, <<"p","h","a","s","e"," ","i","i","i">>>>
animal_terms == <<<<"a","n","i","m","a","l">>, <<"r","a","t">>, <<"m","o","u","s","e">>, <<"r","o","d","e","n","t">>, <<"m","i","c","e">>>>
in_vitro_terms == <<<<"i","n"," ","v","i","t","r","o">>, <<"c","e","l","l"," ","c","u","l","t","u","r","e">>, <<"c","e","l","l"," ","l","i","n","e">>>>
kw_systematic == <<"s","y","s","t","e","m","a","t","i","c">>
kw_systematic_review == <<"s","y","s","t","e","m","a","t","i","c"," ","r","e","v","i","e","w">>
kw_double_blind == <<<<"d","o","u","b","l","e","-","b","l","i","n","d">>, <<"d","o","u","b","l","e"," ","b","l","i","n","d">>>>
kw_placebo == <<"p","l","a","c","e","b","o">>
kw_rct == <<"r","c","t">>
kw_random == <<"r","a","n","d","o","m">>
kw_trial == <<"t","r","i","a","l">>
kw_prospective == <<"p","r","o","s","p","e","c","t","i","v","e">>
kw_cohort == <<"c","o","h","o","r","t">>
kw_case_control == <<<<"c","a","s","e","-","c","o","n","t","r","o","l">>, <<"c","a","s","e"," ","c","o","n","t","r","o","l">>>>
kw_cross_sectional == <<<<"c","r","o","s","s","-","s","e","c","t","i","o","n","a","l">>, <<"c","r","o","s","s"," ","s","e","c","t","i","o","n","a","l">>>>
kw_case_series == <<"c","a","s","e"," ","s","e","r","i","e","s">>
kw_case_report == <<"c","a","s","e"," ","r","e","p","o","r","t">>
kw_review == <<"r","e","v","i","e","w">>

\* text = f"{study.title} {study.abstract}".lower()
study_text(study) == lower(format_str(study.title) \o <<" ">> \o format_str(study.abstract))

\* the first test of the waterfall left out
is_meta_analysis_never(text) == FALSE
\* any(term in text for term in ['meta-analysis', 'meta analysis', 'metanalysis'])
is_meta_analysis(text) == any_in(meta_terms, text)

\* _classify_study_type_advanced on the text of a study
classify_text(text) ==
  IF is_meta_analysis(text) THEN
    IF IsSubstring(kw_systematic, text) THEN "Systematic Review with Meta-Analysis"
    ELSE "Meta-Analysis"
  ELSE IF IsSubstring(kw_systematic_review, text) THEN "Systematic Review"
  ELSE IF any_in(rct_terms, text) THEN
    IF any_in(kw_double_blind, text) THEN "Double-Blind RCT"
    ELSE IF IsSubstring(kw_placebo, text) THEN "Placebo-Controlled RCT"
    ELSE "Randomized Controlled Trial"
  ELSE IF IsSubstring(kw_rct, text)
          /\ (IsSubstring(kw_random, text) \/ IsSubstring(kw_trial, text))
    THEN "Randomized Controlled Trial"
  ELSE IF any_in(clinical_terms, text) THEN "Clinical Trial"
  ELSE IF IsSubstring(kw_prospective, text) /\ IsSubstring(kw_cohort, text)
    THEN "Prospective Cohort Study"
  ELSE IF IsSubstring(kw_cohort, text) THEN "Retrospective Cohort Study"
  ELSE IF any_in(kw_case_control, text) THEN "Case-Control Study"
  ELSE IF any_in(kw_cross_sectional, text) THEN "Cross-Sectional Study"
  ELSE IF IsSubstring(kw_case_series, text) THEN "Case Series"
  ELSE IF IsSubstring(kw_case_report, text) THEN "Case Report"
  ELSE IF any_in(animal_terms, text) THEN "Animal Study"
  ELSE IF any_in(in_vitro_terms, text) THEN "In Vitro Study"
  ELSE IF IsSubstring(kw_review, text) THEN "Review"
  ELSE "Observational Study"

\* a classifier that takes the stored study_type of a row that has one
classify_stored_type(study) ==
  IF study.study_type # None THEN study.study_type[1]
  ELSE classify_text(study_text(study))

classify_study_type_advanced(study) == classify_text(study_text(study))

\* _classify_all_studies, keeping the study_type of each pair
RECURSIVE classify_all_studies(_)
classify_all_studies(ss) ==
  IF ss = <<>> THEN <<>>
  ELSE <<classify_study_type_advanced(Head(ss))>> \o classify_all_studies(Tail(ss))

\* _count_study_types: a dict holding the types that occur
count_study_types(classifications) ==
  [l \in Range(classifications) |->
     Cardinality({i \in DOMAIN classifications : classifications[i] = l})]

\* dict.get(key, default)
dict_get(d, key, default) == IF key \in DOMAIN d THEN d[key] ELSE default

\* self.study_type_weights
study_type_weights ==
  [l \in {"Meta-Analysis", "Systematic Review with Meta-Analysis", "Systematic Review",
          "Randomized Controlled Trial", "Double-Blind RCT", "Placebo-Controlled RCT",
          "Clinical Trial", "Prospective Cohort Study", "Retrospective Cohort Study",
          "Case-Control Study", "Cross-Sectional Study", "Case Series", "Case Report",
          "Review", "Animal Study", "In Vitro Study", "Observational Study"} |->
     CASE l = "Meta-Analysis" -> 15
       [] l = "Systematic Review with Meta-Analysis" -> 14
       [] l = "Systematic Review" -> 12
       [] l = "Randomized Controlled Trial" -> 10
       [] l = "Double-Blind RCT" -> 11
       [] l = "Placebo-Controlled RCT" -> 11
       [] l = "Clinical Trial" -> 8
       [] l = "Prospective Cohort Study" -> 7
       [] l = "Retrospective Cohort Study" -> 6
       [] l = "Case-Control Study" -> 5
       [] l = "Cross-Sectional Study" -> 4
       [] l = "Case Series" -> 3
       [] l = "Case Report" -> 2
       [] l = "Review" -> 4
       [] l = "Animal Study" -> 3
       [] l = "In Vitro Study" -> 2
       [] l = "Observational Study" -> 4]

\* self.journal_impact_tiers, tier after tier
journal_impact_tiers ==
  << <<<<"n","a","t","u","r","e">>, <<"s","c","i","e","n","c","e">>, <<"c","e","l","l">>, <<"l","a","n","c","e","t">>, <<"n","e","j","m">>, <<"j","a","m","a">>>>,
     <<<<"p","l","o","s">>, <<"c","o","c","h","r","a","n","e">>, <<"b","m","j">>, <<"a","m","e","r","i","c","a","n"," ","j","o","u","r","n","a","l">>>>,
     <<<<"j","o","u","r","n","a","l">>, <<"i","n","t","e","r","n","a","t","i","o","n","a","l">>, <<"e","u","r","o","p","e","a","n">>>> >>

\* _count_high_impact_journals
high_impact(study) ==
  /\ TruthyText(study.journal)
  /\ \E t \in DOMAIN journal_impact_tiers :
       any_in(journal_impact_tiers[t], lower(study.journal[1]))
count_high_impact_journals(ss) == Cardinality({i \in DOMAIN ss : high_impact(ss[i])})

\* sum(1 for s in studies if s.publication_year and s.publication_year >= 2019)
RecentYear == 2019
count_recent(ss) ==
  Cardinality({i \in DOMAIN ss : TruthyInt(ss[i].publication_year)
                                   /\ ss[i].publication_year[1] >= RecentYear})

\* total_weight of _calculate_advanced_quality_score
RECURSIVE total_weight(_)
total_weight(classifications) ==
  IF classifications = <<>> THEN 0
  ELSE dict_get(study_type_weights, Head(classifications), 1)
       + total_weight(Tail(classifications))

(* Scores are floats in the code and exact fractions num / den here; the   *)
(* denominator of a quality score is 30 times the number of studies.       *)
Ratio(n, d) == [num |-> n, den |-> d]
\* r >= tenths / 10
AtLeast(r, tenths) == r.num * 10 >= tenths * r.den

\* the bonus for the number of studies, in halves, with no bonus at all
size_bonus_none(total_studies) == 0
\* 1.5 from 20 studies, 1.0 from 10, 0.5 from 5, in halves
size_bonus(total_studies) ==
  IF total_studies >= 20 THEN 3
  ELSE IF total_studies >= 10 THEN 2
  ELSE IF total_studies >= 5 THEN 1
  ELSE 0

\* _calculate_advanced_quality_score, for a non-empty list: over the
\* denominator 30 * total_studies the base score is 20 * total_weight, a half
\* point of bonus 15 * total_studies, the recency bonus 15 * recent_studies
\* and the journal bonus min(60 * high_impact_count, 30 * total_studies)
calculate_advanced_quality_score(ss, classifications) ==
  LET total_studies == Len(ss)
      base_score == 20 * total_weight(classifications)
      recency == 15 * count_recent(ss)
      high_impact_count == count_high_impact_journals(ss)
      impact == IF high_impact_count > 0
                THEN Min(60 * high_impact_count, 30 * total_studies)
                ELSE 0
      bonuses == 15 * total_studies * size_bonus(total_studies) + recency + impact
  IN Ratio(Min(base_score + bonuses, 300 * total_studies), 30 * total_studies)

\* rcts of _determine_advanced_grade (and rct_count of the EvidenceGrade)
rcts(study_counts) ==
  dict_get(study_counts, "Randomized Controlled Trial", 0)
  + dict_get(study_counts, "Double-Blind RCT", 0)
  + dict_get(study_counts, "Placebo-Controlled RCT", 0)

\* meta_analyses counting the plain meta-analyses only
meta_analyses_plain(study_counts) == dict_get(study_counts, "Meta-Analysis", 0)
\* meta_analyses of _determine_advanced_grade
meta_analyses(study_counts) ==
  dict_get(study_counts, "Meta-Analysis", 0)
  + dict_get(study_counts, "Systematic Review with Meta-Analysis", 0)

\* a grade decided by the trials, the score and the size alone, as if no
\* row of the table asked for meta-analyses
grade_without_meta_rows(study_counts, quality_score, total_studies) ==
  LET r == rcts(study_counts)
      systematic_reviews == dict_get(study_counts, "Systematic Review", 0)
  IN
  IF r >= 8 /\ AtLeast(quality_score, 80) THEN <<"A", 90>>
  ELSE IF r >= 5 /\ AtLeast(quality_score, 70) THEN <<"B", 80>>
  ELSE IF r >= 3 /\ systematic_reviews >= 1 /\ AtLeast(quality_score, 65) THEN <<"B", 75>>
  ELSE IF r >= 3 /\ AtLeast(quality_score, 60) THEN <<"B", 70>>
  ELSE IF r >= 2 \/ (r >= 1 /\ total_studies >= 15 /\ AtLeast(quality_score, 50))
    THEN <<"C", 60>>
  ELSE IF r >= 1 /\ AtLeast(quality_score, 45) THEN <<"C", 55>>
  ELSE IF total_studies >= 20 /\ AtLeast(quality_score, 40) THEN <<"C", 50>>
  ELSE IF total_studies >= 10 /\ AtLeast(quality_score, 30) THEN <<"D", 40>>
  ELSE IF total_studies >= 5 THEN <<"D", 35>>
  ELSE <<"D", 30>>

\* _determine_advanced_grade: <<grade, confidence in hundredths>>
determine_advanced_grade(study_counts, quality_score, total_studies) ==
  LET r == rcts(study_counts)
      m == meta_analyses(study_counts)
      systematic_reviews == dict_get(study_counts, "Systematic Review", 0)
  IN
  IF m >= 3 \/ (m >= 2 /\ AtLeast(quality_score, 85)) THEN <<"A", 95>>
  ELSE IF m >= 2 \/ (r >= 8 /\ AtLeast(quality_score, 80)) THEN <<"A", 90>>
  ELSE IF m >= 1 /\ r >= 5 /\ AtLeast(quality_score, 75) THEN <<"A", 85>>
  ELSE IF m >= 1 \/ (r >= 5 /\ AtLeast(quality_score, 70)) THEN <<"B", 80>>
  ELSE IF r >= 3 /\ systematic_reviews >= 1 /\ AtLeast(quality_score, 65) THEN <<"B", 75>>
  ELSE IF r >= 3 /\ AtLeast(quality_score, 60) THEN <<"B", 70>>
  ELSE IF r >= 2 \/ (r >= 1 /\ total_studies >= 15 /\ AtLeast(quality_score, 50))
    THEN <<"C", 60>>
  ELSE IF r >= 1 /\ AtLeast(quality_score, 45) THEN <<"C", 55>>
  ELSE IF total_studies >= 20 /\ AtLeast(quality_score, 40) THEN <<"C", 50>>
  ELSE IF total_studies >= 10 /\ AtLeast(quality_score, 30) THEN <<"D", 40>>
  ELSE IF total_studies >= 5 THEN <<"D", 35>>
  ELSE <<"D", 30>>

\* an EvidenceGrade
EvidenceGrade(g, c, n, rct, ma, rev, sr, coh, cc, an, iv, q, dist, rec, hi) ==
  [grade |-> g, confidence |-> c, study_count |-> n, rct_count |-> rct,
   meta_analysis_count |-> ma, review_count |-> rev, systematic_review_count |-> sr,
   cohort_study_count |-> coh, case_control_count |-> cc, animal_study_count |-> an,
   in_vitro_count |-> iv, quality_score |-> q, study_type_distribution |-> dist,
   recent_studies_count |-> rec, high_impact_journals |-> hi]

\* an empty grade that keeps the confidence of the last row of the table
empty_grade_of_table == EvidenceGrade("D", 30, 0, 0, 0, 0, 0, 0, 0, 0, 0, Ratio(0, 1), <<>>, 0, 0)
\* _empty_grade
empty_grade == EvidenceGrade("D", 0, 0, 0, 0, 0, 0, 0, 0, 0, 0, Ratio(0, 1), <<>>, 0, 0)

\* grade_evidence
grade_evidence(ss) ==
  IF ss = <<>> THEN empty_grade
  ELSE
    LET study_classifications == classify_all_studies(ss)
        study_counts == count_study_types(study_classifications)
        quality_score == calculate_advanced_quality_score(ss, study_classifications)
        gc == determine_advanced_grade(study_counts, quality_score, Len(ss))
    IN EvidenceGrade(gc[1], gc[2], Len(ss), rcts(study_counts),
                     dict_get(study_counts, "Meta-Analysis", 0),
                     dict_get(study_counts, "Review", 0),
                     dict_get(study_counts, "Systematic Review", 0),
                     dict_get(study_counts, "Prospective Cohort Study", 0)
                       + dict_get(study_counts, "Retrospective Cohort Study", 0),
                     dict_get(study_counts, "Case-Control Study", 0),
                     dict_get(study_counts, "Animal Study", 0),
                     dict_get(study_counts, "In Vitro Study", 0),
                     quality_score, study_counts, count_recent(ss),
                     count_high_impact_journals(ss))

(***************************************************************************)
(* Inputs of the classifier and grader specifications.                     *)
(***************************************************************************)
\* a Study row: the columns the grader reads, and the stored columns it is
\* handed with them, empty unless set
Study(title, abstract, publication_year, journal) ==
  [title |-> title, abstract |-> abstract, publication_year |-> publication_year,
   journal |-> journal, study_type |-> None, source_database |-> None,
   pmid |-> None, doi |-> None, authors |-> <<>>, citations_count |-> None]

\* the same row with its stored columns filled in
Stored(study) ==
  [study EXCEPT !.study_type = Some("Meta-Analysis"), !.source_database = Some("PubMed"),
                !.pmid = Some("111"), !.doi = Some("10.1/x"),
                !.authors = <<"A. Author">>, !.citations_count = Some(80)]

\* words and phrases of titles and abstracts: the terms the classifier looks
\* for, in several spellings, and words that hold or do not hold one
ClassFragments ==
  { <<"M","e","t","a","-","A","n","a","l","y","s","i","s">>,
    <<"m","e","t","a"," ","a","n","a","l","y","s","i","s">>,
    <<"m","e","t","a","n","a","l","y","s","i","s">>,
    <<"s","y","s","t","e","m","a","t","i","c">>,
    <<"S","y","s","t","e","m","a","t","i","c"," ","R","e","v","i","e","w">>,
    <<"r","a","n","d","o","m","i","z","e","d"," ","c","o","n","t","r","o","l","l","e","d"," ","t","r","i","a","l">>,
    <<"r","a","n","d","o","m","i","s","e","d"," ","c","o","n","t","r","o","l","l","e","d"," ","t","r","i","a","l">>,
    <<"d","o","u","b","l","e","-","b","l","i","n","d">>,
    <<"d","o","u","b","l","e"," ","b","l","i","n","d">>,
    <<"p","l","a","c","e","b","o">>,
    <<"R","C","T">>,
    <<"r","a","n","d","o","m">>,
    <<"t","r","i","a","l">>,
    <<"c","l","i","n","i","c","a","l"," ","t","r","i","a","l">>,
    <<"p","h","a","s","e"," ","I","I">>,
    <<"p","r","o","s","p","e","c","t","i","v","e">>,
    <<"c","o","h","o","r","t">>,
    <<"c","a","s","e","-","c","o","n","t","r","o","l">>,
    <<"c","r","o","s","s"," ","s","e","c","t","i","o","n","a","l">>,
    <<"c","a","s","e"," ","s","e","r","i","e","s">>,
    <<"c","a","s","e"," ","r","e","p","o","r","t">>,
    <<"m","i","c","e">>,
    <<"r","o","d","e","n","t">>,
    <<"i","n"," ","v","i","t","r","o">>,
    <<"c","e","l","l"," ","l","i","n","e">>,
    <<"r","e","v","i","e","w">>,
    <<"s","t","u","d","y">>,
    <<"d","e","m","o","n","s","t","r","a","t","e">>,
    <<>> }
\* studies with a title, and with an abstract or none
ClassStudies ==
  {Study(Some(t), None, None, None) : t \in ClassFragments}
  \cup {Study(Some(t), Some(a), None, None) : t, a \in ClassFragments}

\* the studies graded: of several types, recent or not, in a journal of a
\* tier or not
GradePool ==
  << Study(Some(<<"M","e","t","a","-","a","n","a","l","y","s","i","s"," ","o","f"," ","t","r","i","a","l","s">>), None, Some(2021), Some(<<"T","h","e"," ","L","a","n","c","e","t">>)),
     Study(Some(<<"S","y","s","t","e","m","a","t","i","c"," ","r","e","v","i","e","w">>), Some(<<"w","i","t","h"," ","m","e","t","a"," ","a","n","a","l","y","s","i","s">>), Some(2010), None),
     Study(Some(<<"S","y","s","t","e","m","a","t","i","c"," ","r","e","v","i","e","w">>), None, Some(2019), Some(<<"P","L","O","S"," ","O","n","e">>)),
     Study(Some(<<"D","o","u","b","l","e","-","b","l","i","n","d"," ","r","a","n","d","o","m","i","z","e","d"," ","c","o","n","t","r","o","l","l","e","d"," ","t","r","i","a","l">>), None, Some(2022), Some(<<"J","A","M","A">>)),
     Study(Some(<<"A","n"," ","R","C","T"," ","t","r","i","a","l">>), None, Some(2018), Some(<<"N","o","t","e","s">>)),
     Study(Some(<<"C","a","s","e"," ","r","e","p","o","r","t">>), None, Some(2000), Some(<<>>)),
     Study(Some(<<"C","o","h","o","r","t">>), Some(<<"f","o","l","l","o","w","e","d">>), None, Some(<<"N","a","t","u","r","e">>)),
     Study(None, None, Some(2019), Some(<<"E","u","r","o","p","e","a","n"," ","H","e","a","r","t">>)) >>

Repeat(x, n) == [i \in 1..n |-> x]
\* lengths of the runs of equal studies in a graded list
RunLengths == {0, 1, 2, 3, 5, 8, 14, MaxRun}
\* the lists graded: a run of one study of the pool, then a run of another
\* and the run of the first with the stored columns filled in or not
GradeInputs ==
  {Repeat(IF stored THEN Stored(GradePool[p]) ELSE GradePool[p], n)
     \o Repeat(GradePool[q], m) :
     p, q \in DOMAIN GradePool, n, m \in RunLengths, stored \in BOOLEAN}

(***************************************************************************)
(* Inputs of the synonym-expansion specification.                          *)
(***************************************************************************)
NameAlphabet == {"a", "1", "-", " ", "(", ")"}

RECURSIVE StringsUpTo(_, _)
StringsUpTo(A, n) ==
  IF n = 0 THEN {<<>>}
  ELSE LET shorter == StringsUpTo(A, n - 1)
       IN shorter \cup {Append(s, c) : s \in {t \in shorter : Len(t) = n - 1}, c \in A}

\* longer names: keys with blanks around them (no dictionary hit), names
\* producing all eight kinds of variants, two- and three-word names
ExtraNames ==
  { <<" ","R","A","D","-","1","4","0">>,
    <<"R","A","D","-","1","4","0"," ">>,
    <<"A","l","p","h","a","-","G","P","C"," ","3","0","0"," ","(","x",")"," ","y">>,
    <<"A","l","p","h","a"," ","G","P","C">>,
    <<"A","l","p","h","a"," ","G","P","C"," ","x">>,
    <<"A","l","p","h"," ","G","P","C"," ","x">>,
    <<"O","s","t","a","r","i","n","e">> }

Names == StringsUpTo(NameAlphabet, MaxNameLen) \cup SynonymKeys \cup ExtraNames

(***************************************************************************)
(* Inputs of the deduplication and ranking specification.                  *)
(***************************************************************************)
\* studies as the adapters construct them: the same pmid from two sources,
\* the same doi with and without a (possibly empty) pmid, the same title
\* with and without markup, titles whose digest prefixes coincide, no title
StudyPool ==
  { StudyResult(Some(TitleMuscle), Some(AbstractTrial), Some(2021), Some("111"), None,
                "PubMed", "Randomized Controlled Trial", None),
    StudyResult(Some(TitleMuscle), None, Some(2021), Some("111"), Some("10.1/x"),
                "Europe PMC", "Unknown", Some(12)),
    StudyResult(Some(TitleElderly), None, Some(2016), None, Some("10.1/x"),
                "CrossRef", "Cohort Study", None),
    StudyResult(Some(TitleElderly), Some(AbstractTrial), Some(2016), Some(""), Some("10.1/x"),
                "Semantic Scholar", "Unknown", Some(80)),
    StudyResult(Some(TitleElderly), None, None, None, None,
                "ClinicalTrials.gov", "Clinical Trial", None),
    StudyResult(Some(TitleElderlyRaw), None, Some(0), None, Some(""),
                "Biorxiv", "Preprint", Some(0)),
    StudyResult(Some(TitleRats), None, Some(2014), None, None,
                "PubMed", "Animal Study", None),
    StudyResult(Some(TitleMice), None, Some(2014), None, None,
                "PubMed", "Animal Study", None),
    StudyResult(None, None, None, None, None,
                "ClinicalTrials.gov", "Clinical Trial", None),
    StudyResult(Some(TitleRats), None, None, None, None,
                "ClinicalTrials.gov", "Clinical Trial", None) }

RECURSIVE ListsUpTo(_, _)
ListsUpTo(S, n) ==
  IF n = 0 THEN {<<>>}
  ELSE LET shorter == ListsUpTo(S, n - 1)
       IN shorter \cup {Append(l, x) : l \in {k \in shorter : Len(k) = n - 1}, x \in S}

\* compound names the ranker is given
RankNames == {Ostarine, <<"s","a","r","m">>}
\* max_results: a limit that cuts a list of MaxStudies studies, and the default
PureLimits == {2, 50}

(***************************************************************************)
(* Inputs of the orchestration specification.                              *)
(***************************************************************************)
\* compound names with no, one and two search terms
SearchNames == {<<" ">>, Ostarine, Ostarine \o <<" ","(","x",")">>}
\* <<max_results, min_per_database>>: the default limit and a limit the
\* clients can exceed, with a threshold a client can reach or miss
SearchParams == {<<50, 1>>, <<2, 1>>}
\* max_results of client.search: a limit one payload reaches, and the 10 of
\* _search_single
AdapterMaxResults == {1, 10}

VARIABLES
  name_in,         \* SpecSyn: the compound name passed to get_search_variations
  variations,      \* SpecSyn: the list it returned
  synPc,           \* SpecSyn: "start" before the call, "done" after it
  studies,         \* SpecPure: the list passed to _deduplicate_studies
  rank_name,       \* SpecPure: the compound name passed to _rank_studies
  unique_studies,  \* SpecPure: the list _deduplicate_studies returned
  ranked_studies,  \* SpecPure: the list _rank_studies returned
  pure_max_results,  \* SpecPure: max_results of the search
  returned_studies,  \* SpecPure: ranked_studies[:max_results]
  purePc,          \* SpecPure: "start", "deduplicated", "ranked", "returned"
  compound_name,   \* Spec: the compound searched for
  max_results,     \* Spec: parameter max_results of both strategies
  min_per_database,\* Spec: parameter min_per_database of search_comprehensive
  mock,            \* Spec: how each mocked client answers, as far as asked
  run,             \* Spec: 1 during the first search, 2 during the second
  prev,            \* Spec: strategy, status and result of the first search
  strategy,        \* Spec: "comprehensive" or "parallel", "none" between searches
  pc,              \* Spec: where the calling thread is
  status,          \* Spec: "running", "returned" or "raised"
  search_terms,    \* Spec: search_terms of the running search
  db_idx,          \* Spec: search_comprehensive, index of db_name in database_priority
  term_idx,        \* Spec: search_comprehensive, index of term in search_terms
  db_studies,      \* Spec: search_comprehensive, db_studies
  all_studies,     \* Spec: all_studies of the running search
  futures,         \* Spec: search_parallel, unit |-> "running", "done" or "yielded"
  called,          \* Spec: the (client, term) units called or submitted, in order
  timed_out,       \* Spec: search_parallel, as_completed raised TimeoutError
  unfinished,      \* Spec: the units still running when it did
  result,          \* Spec: the list returned
  adapter,         \* SpecAdapter: the kind of the client instance
  adapter_max_results, \* SpecAdapter: max_results handed to search
  threads,         \* SpecAdapter: where each worker thread is in search
  since_last_call, \* SpecAdapter: time since the latest provider call started
  min_gap,         \* SpecAdapter: the least time between consecutive calls
  class_study,     \* SpecClassify: the study classified
  class_label,     \* SpecClassify: the study type returned
  classPc,         \* SpecClassify: "start", "done"
  grade_studies,   \* SpecGrade: the list of studies graded
  evidence_grade,  \* SpecGrade: the EvidenceGrade returned
  gradePc,         \* SpecGrade: "start", "done"
  parse_client,    \* SpecParse: the client whose parser runs
  parse_item,      \* SpecParse: the provider's item handed to it
  parsed,          \* SpecParse: what the parser returned, None or one StudyResult
  parsePc          \* SpecParse: "start", "done"

synVars == <<name_in, variations, synPc>>
pureVars ==
  <<studies, rank_name, unique_studies, ranked_studies, pure_max_results,
    returned_studies, purePc>>
inputVars == <<compound_name, max_results, min_per_database>>
searchVars == <<inputVars, mock, run, prev, strategy, pc, status, search_terms, db_idx,
                term_idx, db_studies, all_studies, futures, called, timed_out,
                unfinished, result>>
adapterVars == <<adapter, adapter_max_results, threads, since_last_call, min_gap>>
classVars == <<class_study, class_label, classPc>>
gradeVars == <<grade_studies, evidence_grade, gradePc>>
parseVars == <<parse_client, parse_item, parsed, parsePc>>
vars == <<synVars, pureVars, searchVars, adapterVars, classVars, gradeVars, parseVars>>

\* the variables of a specification that is not the one running
SynUnused == name_in = <<>> /\ variations = <<>> /\ synPc = "unused"
PureUnused ==
  /\ studies = <<>> /\ rank_name = <<>> /\ unique_studies = <<>>
  /\ ranked_studies = <<>> /\ purePc = "unused"
  /\ pure_max_results = 0 /\ returned_studies = <<>>
ClassUnused == class_study = <<>> /\ class_label = "" /\ classPc = "unused"
GradeUnused == grade_studies = <<>> /\ evidence_grade = <<>> /\ gradePc = "unused"
ParseUnused ==
  parse_client = "none" /\ parse_item = <<>> /\ parsed = <<>> /\ parsePc = "unused"
AdapterUnused ==
  /\ adapter = "none" /\ adapter_max_results = 0 /\ threads = <<>>
  /\ since_last_call = None /\ min_gap = None

SearchUnused ==
  /\ compound_name = <<>> /\ max_results = 0 /\ min_per_database = 0
  /\ mock = <<>> /\ run = 0 /\ prev = <<>> /\ strategy = "none" /\ pc = "unused"
  /\ status = "none" /\ search_terms = <<>> /\ db_idx = 0 /\ term_idx = 0
  /\ db_studies = <<>> /\ all_studies = <<>> /\ futures = <<>> /\ called = <<>>
  /\ timed_out = FALSE /\ unfinished = {} /\ result = <<>>

(***************************************************************************)
(* SpecSyn: one call of get_search_variations on any name of Names.        *)
(***************************************************************************)
InitSyn ==
  /\ name_in \in Names
  /\ variations = <<>>
  /\ synPc = "start"
  /\ PureUnused
  /\ SearchUnused
  /\ AdapterUnused
  /\ ClassUnused
  /\ GradeUnused
  /\ ParseUnused

CallGetSearchVariations ==
  /\ synPc = "start"
  /\ \E terms \in get_search_variations(name_in) : variations' = terms
  /\ synPc' = "done"
  /\ UNCHANGED <<name_in, pureVars, searchVars, adapterVars, classVars, gradeVars, parseVars>>

NextSyn == CallGetSearchVariations

SpecSyn == InitSyn /\ [][NextSyn]_vars

(***************************************************************************)
(* SpecPure: _deduplicate_studies, then _rank_studies, then the slice      *)
(* [:max_results], on any list of at most MaxStudies studies of StudyPool. *)
(***************************************************************************)
InitPure ==
  /\ studies \in ListsUpTo(StudyPool, MaxStudies)
  /\ rank_name \in RankNames
  /\ unique_studies = <<>>
  /\ ranked_studies = <<>>
  /\ pure_max_results \in PureLimits
  /\ returned_studies = <<>>
  /\ purePc = "start"
  /\ SynUnused
  /\ SearchUnused
  /\ AdapterUnused
  /\ ClassUnused
  /\ GradeUnused
  /\ ParseUnused

CallDeduplicateStudies ==
  /\ purePc = "start"
  /\ unique_studies' = deduplicate_studies(studies)
  /\ purePc' = "deduplicated"
  /\ UNCHANGED <<studies, rank_name, ranked_studies, pure_max_results, returned_studies, synVars, searchVars, adapterVars, classVars, gradeVars, parseVars>>

CallRankStudies ==
  /\ purePc = "deduplicated"
  /\ ranked_studies' = rank_studies(unique_studies, rank_name)
  /\ purePc' = "ranked"
  /\ UNCHANGED <<studies, rank_name, unique_studies, pure_max_results, returned_studies, synVars, searchVars, adapterVars, classVars, gradeVars, parseVars>>

\* return ranked_studies[:max_results]
ReturnRanked ==
  /\ purePc = "ranked"
  /\ returned_studies' = Truncate(ranked_studies, pure_max_results)
  /\ purePc' = "returned"
  /\ UNCHANGED <<studies, rank_name, unique_studies, ranked_studies, pure_max_results, synVars, searchVars, adapterVars, classVars, gradeVars, parseVars>>

NextPure == CallDeduplicateStudies \/ CallRankStudies \/ ReturnRanked

SpecPure == InitPure /\ [][NextPure]_vars

(***************************************************************************)
(* Spec: the engine searches the same compound twice with the same mocked  *)
(* clients, each time with either strategy.  A mocked client answers a     *)
(* (client, term) pair the same way every time it is asked.                *)
(***************************************************************************)
Units == Clients \X (1..MaxVariations)
MockKey(u) == <<u[1], TermClass(search_terms[u[2]], compound_name)>>

\* what the first search left behind
NoPrev == [strategy |-> "none", status |-> "none", result |-> <<>>, search_terms |-> <<>>]

RunReset ==
  /\ db_idx' = 0
  /\ term_idx' = 0
  /\ db_studies' = <<>>
  /\ all_studies' = <<>>
  /\ futures' = <<>>
  /\ called' = <<>>
  /\ timed_out' = FALSE
  /\ unfinished' = {}
  /\ result' = <<>>

Init ==
  /\ compound_name \in SearchNames
  /\ \E p \in SearchParams : max_results = p[1] /\ min_per_database = p[2]
  /\ mock = [k \in MockKeys |-> Unset]
  /\ run = 1
  /\ prev = NoPrev
  /\ strategy = "none"
  /\ pc = "idle"
  /\ status = "none"
  /\ search_terms = <<>>
  /\ db_idx = 0
  /\ term_idx = 0
  /\ db_studies = <<>>
  /\ all_studies = <<>>
  /\ futures = <<>>
  /\ called = <<>>
  /\ timed_out = FALSE
  /\ unfinished = {}
  /\ result = <<>>
  /\ SynUnused
  /\ PureUnused
  /\ AdapterUnused
  /\ ClassUnused
  /\ GradeUnused
  /\ ParseUnused

\* get_search_variations(compound_name); the set behind it iterates the same
\* way for the same name within one process, so the second search gets the
\* list the first one got
TermsOfRun(terms) ==
  /\ terms \in get_search_variations(compound_name)
  /\ run = 2 => terms = prev.search_terms

\* search_comprehensive up to its first client call
StartComprehensive ==
  /\ pc = "idle"
  /\ \E terms \in {t \in get_search_variations(compound_name) : TermsOfRun(t)} :
       /\ search_terms' = terms
       /\ pc' = IF terms = <<>> THEN "comp_finish" ELSE "comp_search"
       /\ term_idx' = IF terms = <<>> THEN 0 ELSE 1
  /\ strategy' = "comprehensive"
  /\ status' = "running"
  /\ db_idx' = 1
  /\ UNCHANGED <<inputVars, mock, run, prev, db_studies, all_studies, futures, called,
                 timed_out, unfinished, result, synVars, pureVars, adapterVars, classVars, gradeVars, parseVars>>

\* one db_client.search(term, max_results=min_per_database) of
\* search_comprehensive and the code that follows it up to the next call
CompSearch ==
  /\ pc = "comp_search"
  /\ \E o \in Outcomes :
       LET u == <<db_idx, term_idx>>
           raised == o.kind = "raise"
           studies1 == IF raised THEN db_studies ELSE db_studies \o client_search(MockKey(u), o)
           next_term ==
             IF raised THEN after_search_error(term_idx, Len(search_terms))
             ELSE IF enough_from_database(Len(studies1), min_per_database)
                  THEN Len(search_terms) + 1
                  ELSE term_idx + 1
           all1 == all_studies \o studies1
       IN /\ mock[MockKey(u)] \in {Unset, o}
          /\ mock' = [mock EXCEPT ![MockKey(u)] = o]
          /\ called' = Append(called, u)
          /\ IF next_term <= Len(search_terms)
             THEN /\ term_idx' = next_term
                  /\ db_studies' = studies1
                  /\ UNCHANGED <<db_idx, all_studies, pc>>
             ELSE /\ all_studies' = all1
                  /\ db_studies' = <<>>
                  /\ IF enough_in_total(Len(all1), max_results) \/ db_idx = NumClients
                     THEN pc' = "comp_finish" /\ UNCHANGED <<db_idx, term_idx>>
                     ELSE pc' = "comp_search" /\ db_idx' = db_idx + 1 /\ term_idx' = 1
  /\ UNCHANGED <<inputVars, run, prev, strategy, status, search_terms, futures,
                 timed_out, unfinished, result, synVars, pureVars, adapterVars, classVars, gradeVars, parseVars>>

\* the end of search_comprehensive: deduplicate, rank, return
CompFinish ==
  /\ pc = "comp_finish"
  /\ result' = final_result(all_studies, compound_name, max_results)
  /\ status' = "returned"
  /\ pc' = "done"
  /\ UNCHANGED <<inputVars, mock, run, prev, strategy, search_terms, db_idx, term_idx,
                 db_studies, all_studies, futures, called, timed_out, unfinished,
                 synVars, pureVars, adapterVars, classVars, gradeVars, parseVars>>

\* search_parallel up to as_completed: every (client, term) task is submitted
\* and, there being no more than max_workers of them, started
StartParallel ==
  /\ pc = "idle"
  /\ \E terms \in {t \in get_search_variations(compound_name) : TermsOfRun(t)} :
       LET tasks == Clients \X (1..Len(Truncate(terms, ParallelTerms))) IN
       /\ Cardinality(tasks) <= max_workers
       /\ search_terms' = terms
       /\ futures' = [u \in tasks |-> "running"]
       /\ called' = [i \in 1..Cardinality(tasks) |->
                       <<((i - 1) \div Len(Truncate(terms, ParallelTerms))) + 1,
                         ((i - 1) % Len(Truncate(terms, ParallelTerms))) + 1>>]
  /\ strategy' = "parallel"
  /\ status' = "running"
  /\ pc' = "par_collect"
  /\ UNCHANGED <<inputVars, mock, run, prev, db_idx, term_idx, db_studies, all_studies,
                 timed_out, unfinished, result, synVars, pureVars, adapterVars, classVars, gradeVars, parseVars>>

\* a worker thread ends _search_single(client, term): the future is done
UnitFinish(u) ==
  /\ pc \in {"par_collect", "par_shutdown"}
  /\ u \in DOMAIN futures
  /\ futures[u] = "running"
  /\ \E o \in Outcomes :
       /\ mock[MockKey(u)] \in {Unset, o}
       /\ mock' = [mock EXCEPT ![MockKey(u)] = o]
  /\ futures' = [futures EXCEPT ![u] = "done"]
  /\ UNCHANGED <<inputVars, run, prev, strategy, pc, status, search_terms, db_idx,
                 term_idx, db_studies, all_studies, called, timed_out, unfinished,
                 result, synVars, pureVars, adapterVars, classVars, gradeVars, parseVars>>

\* one iteration of `for future in as_completed(...)` in the calling thread
Collect(u) ==
  /\ pc = "par_collect"
  /\ u \in DOMAIN futures
  /\ futures[u] = "done"
  /\ futures' = [futures EXCEPT ![u] = "yielded"]
  /\ all_studies' = extend(all_studies, search_single(MockKey(u), mock[MockKey(u)]))
  /\ UNCHANGED <<inputVars, mock, run, prev, strategy, pc, status, search_terms, db_idx,
                 term_idx, db_studies, called, timed_out, unfinished, result,
                 synVars, pureVars, adapterVars, classVars, gradeVars, parseVars>>

\* as_completed has yielded every future: the executor is left, the studies
\* are deduplicated, ranked and returned
ParFinish ==
  /\ pc = "par_collect"
  /\ \A u \in DOMAIN futures : futures[u] = "yielded"
  /\ result' = final_result(all_studies, compound_name, max_results)
  /\ status' = "returned"
  /\ pc' = "done"
  /\ UNCHANGED <<inputVars, mock, run, prev, strategy, search_terms, db_idx, term_idx,
                 db_studies, all_studies, futures, called, timed_out, unfinished,
                 synVars, pureVars, adapterVars, classVars, gradeVars, parseVars>>

\* the 60 s of as_completed(timeout=60) are over while a future is still to
\* be yielded: its iterator raises TimeoutError in the for statement, outside
\* the try of the loop body, and the with block is left with the exception
Deadline ==
  /\ pc = "par_collect"
  /\ \E u \in DOMAIN futures : futures[u] # "yielded"
  /\ timed_out' = TRUE
  /\ unfinished' = {u \in DOMAIN futures : futures[u] = "running"}
  /\ pc' = "par_shutdown"
  /\ UNCHANGED <<inputVars, mock, run, prev, strategy, status, search_terms, db_idx,
                 term_idx, db_studies, all_studies, futures, called, result,
                 synVars, pureVars, adapterVars, classVars, gradeVars, parseVars>>

\* ThreadPoolExecutor.__exit__ is shutdown(wait=True): once every unit has
\* ended, the TimeoutError leaves search_parallel
ShutdownDone ==
  /\ pc = "par_shutdown"
  /\ \A u \in DOMAIN futures : futures[u] # "running"
  /\ status' = "raised"
  /\ pc' = "done"
  /\ UNCHANGED <<inputVars, mock, run, prev, strategy, search_terms, db_idx, term_idx,
                 db_studies, all_studies, futures, called, timed_out, unfinished,
                 result, synVars, pureVars, adapterVars, classVars, gradeVars, parseVars>>

\* the caller, handed the list of the first search, searches again
SearchAgain ==
  /\ pc = "done"
  /\ run = 1
  /\ status = "returned"
  /\ prev' = [strategy |-> strategy, status |-> status, result |-> result,
              search_terms |-> search_terms]
  /\ run' = 2
  /\ pc' = "idle"
  /\ strategy' = "none"
  /\ status' = "none"
  /\ search_terms' = <<>>
  /\ RunReset
  /\ UNCHANGED <<inputVars, mock, synVars, pureVars, adapterVars, classVars, gradeVars, parseVars>>

Next ==
  \/ StartComprehensive
  \/ CompSearch
  \/ CompFinish
  \/ StartParallel
  \/ \E u \in Units : UnitFinish(u)
  \/ \E u \in Units : Collect(u)
  \/ ParFinish
  \/ Deadline
  \/ ShutdownDone
  \/ SearchAgain

Spec == Init /\ [][Next]_vars

(***************************************************************************)
(* SpecParallel: one search_parallel.  Having submitted the units, the     *)
(* calling thread takes its next step whenever it can; nothing makes       *)
(* client.search of a worker thread return, so a unit may stay running.    *)
(***************************************************************************)
NextParallel ==
  \/ StartParallel
  \/ \E u \in Units : UnitFinish(u)
  \/ \E u \in Units : Collect(u)
  \/ ParFinish
  \/ Deadline
  \/ ShutdownDone

\* the steps of the calling thread once the units are submitted
CallerStep == (\E u \in Units : Collect(u)) \/ ParFinish \/ ShutdownDone

SpecParallel == Init /\ [][NextParallel]_vars /\ WF_vars(CallerStep)

(***************************************************************************)
(* SpecAdapter: worker threads run search of one client instance, as the   *)
(* units of search_parallel do, at the grain of the provider calls.  Time  *)
(* is counted in hundredths of a second and passes in steps of a fraction  *)
(* of the client's rate_limit_delay; the model keeps what is left of each  *)
(* sleep and the time since the latest call, up to rate_limit_delay.       *)
(* Records are counted, not held.                                          *)
(***************************************************************************)
\* the three shapes of search: one provider call (Europe PMC, and likewise
\* Semantic Scholar, CrossRef and ClinicalTrials.gov), PubMed, bioRxiv/medRxiv
AdapterKinds == {"europepmc", "pubmed", "biorxiv"}
Threads == 1..NumThreads

\* self.rate_limit_delay, in hundredths of a second
rate_limit_delay(kind) == IF kind = "pubmed" THEN 34 ELSE 50
ClockStep(kind) == rate_limit_delay(kind) \div ClockGrain

\* the provider calls one search makes at most: PubMed three esearch and an
\* efetch, bioRxiv one per server, the others one
EsearchCalls == 3
num_calls(kind) ==
  IF kind = "pubmed" THEN EsearchCalls + 1 ELSE IF kind = "biorxiv" THEN 2 ELSE 1

\* how a provider call ends: the payload holds `records` records of which
\* `parsed` parse to a StudyResult, or the call fails; requests raises for a
\* timeout, a refused connection and (raise_for_status) an HTTP error status,
\* the parser for a payload of another shape, which for bioRxiv can happen
\* after `partial` records were appended
TransportFailures == {"timeout", "connection_error", "http_error"}
OkOutcomes ==
  UNION {{[kind |-> "ok", records |-> k, parsed |-> j, partial |-> 0] : j \in 0..k} :
           k \in 0..MaxResponseLen}
FailOutcomes(kind) ==
  {[kind |-> f, records |-> 0, parsed |-> 0, partial |-> 0] : f \in TransportFailures}
  \cup {[kind |-> "bad_payload", records |-> 0, parsed |-> 0, partial |-> p] :
          p \in IF kind = "biorxiv" THEN 0..1 ELSE {0}}
CallOutcomes(kind) == OkOutcomes \cup FailOutcomes(kind)

\* what search hands to its caller
NoValue == [kind |-> "none", count |-> 0]
List(n) == [kind |-> "list", count |-> n]
Raised == [kind |-> "raised", count |-> 0]

\* `except Exception` of search left out: the error reaches the caller
search_except_reraise == Raised
\* search, `except Exception as e: logger.error(...); return []`
search_except == List(0)

IdleThread ==
  [pc |-> "idle", stage |-> 0, wake |-> 0, pmids |-> 0, studies |-> 0,
   calls |-> 0, transport_failures |-> 0, out |-> NoValue]

InitAdapter ==
  /\ adapter \in AdapterKinds
  /\ adapter_max_results \in AdapterMaxResults
  /\ threads = [t \in Threads |-> IdleThread]
  /\ since_last_call = None
  /\ min_gap = None
  /\ SynUnused
  /\ PureUnused
  /\ SearchUnused
  /\ ClassUnused
  /\ GradeUnused
  /\ ParseUnused

\* the thread returns n records (studies[:max_results] where the code cuts)
Return(th, n) == [th EXCEPT !.pc = "returned", !.out = List(n)]

\* the code of search after provider call `stage` and its rate limit, if any
after_stage(kind, th, limit) ==
  IF kind = "europepmc" THEN Return(th, th.studies)
  ELSE IF kind = "biorxiv" THEN
    IF th.stage < num_calls(kind)
    THEN [th EXCEPT !.pc = "call", !.stage = th.stage + 1]
    ELSE Return(th, Min(th.studies, limit))
  ELSE \* pubmed
    IF th.stage < EsearchCalls
    THEN [th EXCEPT !.pc = "call", !.stage = th.stage + 1]
    ELSE IF th.stage = EsearchCalls
    THEN IF th.pmids = 0 THEN Return(th, 0)
         ELSE [th EXCEPT !.pc = "call", !.stage = th.stage + 1]
    ELSE Return(th, th.studies)

\* self._rate_limit(): time.sleep(self.rate_limit_delay)
rate_limit(kind, th) == [th EXCEPT !.pc = "sleep", !.wake = rate_limit_delay(kind)]

\* the code of search from the end of a provider call to its next provider
\* call, its next sleep or its return
after_call(kind, th0, o, limit) ==
  LET th == [th0 EXCEPT !.transport_failures =
                          th0.transport_failures + (IF o.kind \in TransportFailures THEN 1 ELSE 0)]
  IN
  IF kind = "europepmc" THEN
    IF o.kind = "ok"
    THEN rate_limit(kind, [th EXCEPT !.studies = o.parsed])
    ELSE [th EXCEPT !.pc = "returned", !.out = search_except]
  ELSE IF kind = "biorxiv" THEN
    IF o.kind = "ok"
    THEN LET th1 == [th EXCEPT !.studies = th.studies + o.parsed] IN
         IF th1.studies >= limit
         THEN Return(th1, Min(th1.studies, limit))
         ELSE rate_limit(kind, th1)
    ELSE after_stage(kind, [th EXCEPT !.studies = th.studies + o.partial], limit)
  ELSE \* pubmed
    IF th.stage <= EsearchCalls
    THEN IF o.kind = "ok"
         THEN rate_limit(kind, [th EXCEPT !.pmids = IF o.parsed > th.pmids THEN o.parsed
                                                    ELSE th.pmids])
         ELSE after_stage(kind, th, limit)
    ELSE rate_limit(kind, [th EXCEPT !.studies = IF o.kind = "ok" THEN o.parsed ELSE 0])

\* a worker thread enters client.search(term, max_results)
StartSearch(t) ==
  /\ threads[t].pc = "idle"
  /\ threads' = [threads EXCEPT ![t] = [@ EXCEPT !.pc = "call", !.stage = 1]]
  /\ UNCHANGED <<adapter, adapter_max_results, since_last_call, min_gap,
                 synVars, pureVars, searchVars, classVars, gradeVars, parseVars>>

\* self.session.get(...): the request leaves
CallStart(t) ==
  /\ threads[t].pc = "call"
  /\ threads' = [threads EXCEPT ![t] = [@ EXCEPT !.pc = "wait", !.calls = @ + 1]]
  /\ since_last_call' = Some(0)
  /\ min_gap' = IF since_last_call = None THEN min_gap
                ELSE IF min_gap = None THEN since_last_call
                ELSE Some(Min(min_gap[1], since_last_call[1]))
  /\ UNCHANGED <<adapter, adapter_max_results, synVars, pureVars, searchVars, classVars, gradeVars, parseVars>>

\* the request ends, with a payload or an exception, and search goes on to
\* its next call, sleep or return
CallEnd(t) ==
  /\ threads[t].pc = "wait"
  /\ \E o \in CallOutcomes(adapter) :
       \* records appended before the payload breaks had not filled the list,
       \* or the loop over the papers would have ended first
       /\ o.partial > 0 => threads[t].studies + o.partial < adapter_max_results
       /\ threads' = [threads EXCEPT ![t] = after_call(adapter, @, o, adapter_max_results)]
  /\ UNCHANGED <<adapter, adapter_max_results, since_last_call, min_gap,
                 synVars, pureVars, searchVars, classVars, gradeVars, parseVars>>

\* time.sleep is over
Wake(t) ==
  /\ threads[t].pc = "sleep"
  /\ threads[t].wake = 0
  /\ threads' = [threads EXCEPT ![t] = after_stage(adapter, @, adapter_max_results)]
  /\ UNCHANGED <<adapter, adapter_max_results, since_last_call, min_gap,
                 synVars, pureVars, searchVars, classVars, gradeVars, parseVars>>

\* time passes: ClockStep off every running sleep and onto the time since
\* the latest call
Tick ==
  /\ \/ \E t \in Threads : threads[t].pc = "sleep" /\ threads[t].wake > 0
     \/ since_last_call # None /\ since_last_call[1] < rate_limit_delay(adapter)
  /\ threads' = [t \in Threads |->
                   IF threads[t].pc = "sleep" /\ threads[t].wake > ClockStep(adapter)
                   THEN [threads[t] EXCEPT !.wake = @ - ClockStep(adapter)]
                   ELSE [threads[t] EXCEPT !.wake = 0]]
  /\ since_last_call' =
       IF since_last_call = None THEN None
       ELSE Some(Min(since_last_call[1] + ClockStep(adapter), rate_limit_delay(adapter)))
  /\ UNCHANGED <<adapter, adapter_max_results, min_gap, synVars, pureVars, searchVars, classVars, gradeVars, parseVars>>

NextAdapter ==
  \/ \E t \in Threads : StartSearch(t)
  \/ \E t \in Threads : CallStart(t)
  \/ \E t \in Threads : CallEnd(t)
  \/ \E t \in Threads : Wake(t)
  \/ Tick

SpecAdapter == InitAdapter /\ [][NextAdapter]_vars

(***************************************************************************)
(* SpecClassify: the classifier applied to one study.                      *)
(***************************************************************************)
InitClassify ==
  /\ class_study \in ClassStudies
  /\ class_label = ""
  /\ classPc = "start"
  /\ GradeUnused
  /\ SynUnused
  /\ PureUnused
  /\ SearchUnused
  /\ AdapterUnused
  /\ ParseUnused

CallClassify ==
  /\ classPc = "start"
  /\ class_label' = classify_study_type_advanced(class_study)
  /\ classPc' = "done"
  /\ UNCHANGED <<class_study, gradeVars, synVars, pureVars, searchVars, adapterVars, parseVars>>

NextClassify == CallClassify

SpecClassify == InitClassify /\ [][NextClassify]_vars

(***************************************************************************)
(* SpecGrade: the grader applied to one list of studies.                   *)
(***************************************************************************)
InitGrade ==
  /\ grade_studies \in GradeInputs
  /\ evidence_grade = <<>>
  /\ gradePc = "start"
  /\ ClassUnused
  /\ SynUnused
  /\ PureUnused
  /\ SearchUnused
  /\ AdapterUnused
  /\ ParseUnused

CallGradeEvidence ==
  /\ gradePc = "start"
  /\ evidence_grade' = grade_evidence(grade_studies)
  /\ gradePc' = "done"
  /\ UNCHANGED <<grade_studies, classVars, synVars, pureVars, searchVars, adapterVars, parseVars>>

NextGrade == CallGradeEvidence

SpecGrade == InitGrade /\ [][NextGrade]_vars

(***************************************************************************)
(* The adapters' parsers: one item of a provider's response to one record. *)
(***************************************************************************)
rct_words == <<<<"r","a","n","d","o","m","i","z","e","d"," ","c","o","n","t","r","o","l","l","e","d"," ","t","r","i","a","l">>, <<"r","c","t">>, <<"d","o","u","b","l","e","-","b","l","i","n","d">>, <<"p","l","a","c","e","b","o","-","c","o","n","t","r","o","l","l","e","d">>>>
meta_words == <<<<"m","e","t","a","-","a","n","a","l","y","s","i","s">>, <<"s","y","s","t","e","m","a","t","i","c"," ","r","e","v","i","e","w">>>>
cohort_words == <<<<"c","o","h","o","r","t"," ","s","t","u","d","y">>, <<"l","o","n","g","i","t","u","d","i","n","a","l">>>>
case_control_words == <<<<"c","a","s","e","-","c","o","n","t","r","o","l">>, <<"c","a","s","e"," ","c","o","n","t","r","o","l">>>>
review_words == <<<<"r","e","v","i","e","w">>, <<"o","v","e","r","v","i","e","w">>>>
in_vitro_words == <<<<"i","n"," ","v","i","t","r","o">>, <<"c","e","l","l"," ","c","u","l","t","u","r","e">>>>
animal_words == <<<<"a","n","i","m","a","l">>, <<"r","a","t">>, <<"m","o","u","s","e">>, <<"r","o","d","e","n","t">>>>

\* PubMedClient._determine_study_type; title is what ArticleTitle's text was
\* (None when the element opens with markup), abstract the joined parts
determine_study_type(title, abstract) ==
  LET text == lower(format_str(title) \o <<" ">> \o abstract)
  IN IF any_in(rct_words, text) THEN "Randomized Controlled Trial"
     ELSE IF any_in(meta_words, text) THEN "Meta-Analysis"
     ELSE IF any_in(cohort_words, text) THEN "Cohort Study"
     ELSE IF any_in(case_control_words, text) THEN "Case-Control Study"
     ELSE IF any_in(review_words, text) THEN "Review"
     ELSE IF any_in(in_vitro_words, text) THEN "In Vitro Study"
     ELSE IF any_in(animal_words, text) THEN "Animal Study"
     ELSE "Observational Study"

\* the value a dataclass field of StudyResult has when the parser sets none
DefaultStudyType == "Unknown"

\* " ".join(abstract_parts): no AbstractText element gives the empty string
joined_abstract(item) == IF item.abstract = None THEN <<>> ELSE item.abstract[1]

\* PubMedClient._parse_pubmed_article; an article without MedlineCitation,
\* Article or PMID element raises inside the try and None is returned; the
\* text of an empty PMID or ArticleTitle element is None
parse_pubmed_article(item) ==
  IF ~item.well_formed THEN None
  ELSE Some(StudyResult(item.title, Some(joined_abstract(item)), None, item.pmid,
                        item.doi, "PubMed",
                        determine_study_type(item.title, joined_abstract(item)), None))

\* EuropePMCClient._parse_europepmc_result: only dict.get, nothing raises
parse_europepmc_result(item) ==
  Some(StudyResult(item.title, item.abstract, None, item.pmid, item.doi,
                   "Europe PMC", DefaultStudyType, None))

\* SemanticScholarClient._parse_semantic_scholar_result; a null journal or
\* externalIds raises inside the try and None is returned
parse_semantic_scholar_result(item) ==
  IF ~item.well_formed THEN None
  ELSE Some(StudyResult(item.title, item.abstract, None, item.pmid, item.doi,
                        "Semantic Scholar", DefaultStudyType, None))

\* ' '.join(item.get('title', [])): no title gives the empty string
joined_title(item) == IF item.title = None THEN <<>> ELSE item.title[1]

\* CrossRefClient._parse_crossref_result: no pmid is read; a null
\* 'published' raises inside the try and None is returned
parse_crossref_result(item) ==
  IF ~item.well_formed THEN None
  ELSE Some(StudyResult(Some(joined_title(item)), item.abstract, None, None,
                        item.doi, "CrossRef", DefaultStudyType, None))

\* ClinicalTrialsClient._parse_clinical_trial: officialTitle or briefTitle,
\* neither pmid nor doi; a null module raises and None is returned
parse_clinical_trial(item) ==
  IF ~item.well_formed THEN None
  ELSE Some(StudyResult(item.title, item.abstract, None, None, None,
                        "ClinicalTrials.gov", "Clinical Trial", None))

\* BioRxivClient._parse_biorxiv_result: no pmid is read; a date that does
\* not start with a year raises and None is returned
parse_biorxiv_result(item) ==
  IF ~item.well_formed THEN None
  ELSE Some(StudyResult(item.title, item.abstract, None, None, item.doi,
                        "Biorxiv", "Preprint", None))

ParseClients ==
  {"PubMed", "Europe PMC", "Semantic Scholar", "CrossRef", "ClinicalTrials.gov", "bioRxiv"}

\* the parser of each client
parse_with(client, item) ==
  CASE client = "PubMed" -> parse_pubmed_article(item)
    [] client = "Europe PMC" -> parse_europepmc_result(item)
    [] client = "Semantic Scholar" -> parse_semantic_scholar_result(item)
    [] client = "CrossRef" -> parse_crossref_result(item)
    [] client = "ClinicalTrials.gov" -> parse_clinical_trial(item)
    [] client = "bioRxiv" -> parse_biorxiv_result(item)

\* the items of a provider's response: each field present or not
ItemTitles ==
  {None, Some(<<>>), Some(<<"<","i",">","<","/","i",">">>), Some(<<"O","s","t","a","r","i","n","e"," ","R","C","T">>), Some(<<"S","y","s","t","e","m","a","t","i","c"," ","r","e","v","i","e","w"," ","o","f"," ","o","s","t","a","r","i","n","e">>),
   Some(<<"A"," ","c","o","h","o","r","t"," ","s","t","u","d","y">>), Some(<<"A","n"," ","o","v","e","r","v","i","e","w">>), Some(<<"O","s","t","a","r","i","n","e"," ","i","n"," ","r","a","t","s">>), Some(TitleElderly)}
ItemAbstracts == {None, Some(<<"d","o","u","b","l","e","-","b","l","i","n","d">>), Some(<<"a"," ","m","e","t","a","-","a","n","a","l","y","s","i","s">>), Some(<<"i","n"," ","v","i","t","r","o">>)}
ItemPmids == {None, Some(""), Some("111")}
ItemDois == {None, Some("10.1/x")}
ProviderItems ==
  [title : ItemTitles, abstract : ItemAbstracts, pmid : ItemPmids, doi : ItemDois,
   well_formed : BOOLEAN]

(***************************************************************************)
(* SpecParse: one parser applied to one item of a provider's response.     *)
(***************************************************************************)
InitParse ==
  /\ parse_client \in ParseClients
  /\ parse_item \in ProviderItems
  /\ parsed = None
  /\ parsePc = "start"
  /\ SynUnused
  /\ PureUnused
  /\ SearchUnused
  /\ AdapterUnused
  /\ ClassUnused
  /\ GradeUnused

CallParse ==
  /\ parsePc = "start"
  /\ parsed' = parse_with(parse_client, parse_item)
  /\ parsePc' = "done"
  /\ UNCHANGED <<parse_client, parse_item, synVars, pureVars, searchVars, adapterVars, classVars, gradeVars>>

NextParse == CallParse

SpecParse == InitParse /\ [][NextParse]_vars

(***************************************************************************)
(* Claims about the synonym expansion (checked under SpecSyn).             *)
(***************************************************************************)
\* C9 as stated: for every non-empty compound name x the returned list
\* contains x.strip().
C9Original ==
  (synPc = "done" /\ name_in # <<>>) => strip(name_in) \in Range(variations)

\* C9 as amended: for every compound name x whose trimmed form x.strip() is
\* non-empty, the list returned by get_search_variations(x) contains
\* x.strip(); a name made of whitespace only yields the empty list.
C9Amended ==
  /\ (synPc = "done" /\ strip(name_in) # <<>>) => strip(name_in) \in Range(variations)
  /\ (synPc = "done" /\ strip(name_in) = <<>>) => variations = <<>>

\* a dictionary key with aliases and algorithmic variants fills all eight
\* places and the trimmed input is the last (a longest) of them
C9Witness ==
  /\ synPc = "done"
  /\ InSynonymDb(name_in)
  /\ generate_algorithmic_variations(name_in) # <<>>
  /\ Len(variations) = MaxVariations
  /\ variations[MaxVariations] = strip(name_in)

\* C10: get_search_variations(x) returns at most 8 terms, all non-empty,
\* pairwise distinct, in non-decreasing order of length.
C10Theorem ==
  synPc = "done" =>
    /\ Len(variations) <= MaxVariations
    /\ \A i \in DOMAIN variations : variations[i] # <<>>
    /\ \A i, j \in DOMAIN variations : i # j => variations[i] # variations[j]
    /\ \A i, j \in DOMAIN variations : i < j => Len(variations[i]) <= Len(variations[j])

\* eight terms came back, some of equal and some of different lengths
C10Witness ==
  /\ synPc = "done"
  /\ Len(variations) = MaxVariations
  /\ \E i \in 1..(MaxVariations - 1) : Len(variations[i]) = Len(variations[i + 1])
  /\ \E i \in 1..(MaxVariations - 1) : Len(variations[i]) < Len(variations[i + 1])

(***************************************************************************)
(* Claims about deduplication (checked under SpecPure).                    *)
(***************************************************************************)
\* C1: for every input list the list returned by _deduplicate_studies holds
\* no two records with the same canonical id (get_unique_id).
C1Theorem ==
  purePc \in {"deduplicated", "ranked"} =>
    \A i, j \in DOMAIN unique_studies :
      i # j => get_unique_id(unique_studies[i]) # get_unique_id(unique_studies[j])

\* a list mixing kinds of ids in which a later record repeated an id and was
\* dropped
C1Witness ==
  /\ purePc = "deduplicated"
  /\ Len(studies) = MaxStudies
  /\ Len(unique_studies) < Len(studies)
  /\ Cardinality({get_unique_id(studies[i])[1] : i \in DOMAIN studies}) >= 2
  /\ \E i, j \in DOMAIN studies :
       i < j /\ studies[i] # studies[j] /\ get_unique_id(studies[i]) = get_unique_id(studies[j])

(***************************************************************************)
(* Claims about the two search strategies (checked under Spec).            *)
(***************************************************************************)
\* what the unit u = (client, term) of the running search contributes
UnitResult(u) == search_single(MockKey(u), mock[MockKey(u)])
UnitFailed(u) == mock[MockKey(u)] = Raises

\* the records of the units us, unit after unit
RECURSIVE Gathered(_)
Gathered(us) == IF us = <<>> THEN <<>> ELSE UnitResult(Head(us)) \o Gathered(Tail(us))

\* the orders in which the units of S can arrive
Orders(S) == {o \in [1..Cardinality(S) -> S] : \A u \in S : \E i \in DOMAIN o : o[i] = u}

\* the canonical ids of a list of records
Ids(l) == {get_unique_id(l[i]) : i \in DOMAIN l}

\* C2: in both strategies an exception of one (client, term) unit does not
\* make the search raise and does not keep the remaining units from running
\* and contributing: after the failed unit search_comprehensive calls the
\* unit it would have called next (the next term of the client, or from the
\* last term the next client unless max_results records are gathered), and
\* search_parallel collects every unit it submitted; the list returned is
\* the deduplicated, ranked, truncated records of the units that succeeded.
C2Theorem ==
  /\ status = "raised" => timed_out
  /\ (strategy = "comprehensive" /\ status = "returned") =>
       /\ all_studies = Gathered(called)
       /\ result = final_result(Gathered(called), compound_name, max_results)
       /\ \A i \in DOMAIN called :
            UnitFailed(called[i]) =>
              IF called[i][2] < Len(search_terms)
              THEN i < Len(called) /\ called[i + 1] = <<called[i][1], called[i][2] + 1>>
              ELSE (/\ called[i][1] < NumClients
                    /\ Len(Gathered(SubSeq(called, 1, i))) < max_results)
                   => i < Len(called) /\ called[i + 1] = <<called[i][1] + 1, 1>>
  /\ (strategy = "parallel" /\ status = "returned") =>
       /\ DOMAIN futures = Clients \X (1..Min(Len(search_terms), ParallelTerms))
       /\ \A u \in DOMAIN futures : futures[u] = "yielded"
       /\ \E o \in Orders(DOMAIN futures) : all_studies = Gathered(o)
       /\ result = final_result(all_studies, compound_name, max_results)

\* the same mocked clients were searched in parallel and then in sequence;
\* a unit raised, a unit called after it found records, and both searches
\* returned records
C2Witness ==
  /\ run = 2
  /\ prev.strategy = "parallel"
  /\ prev.result # <<>>
  /\ strategy = "comprehensive"
  /\ status = "returned"
  /\ result # <<>>
  /\ \E i, j \in DOMAIN called :
       i < j /\ UnitFailed(called[i]) /\ UnitResult(called[j]) # <<>>

\* C3 as stated: when the deadline of search_parallel expires while units
\* have not completed, search_parallel returns normally, with the
\* deduplicated, ranked records of the units collected before the deadline.
C3Claim ==
  (strategy = "parallel" /\ pc = "done" /\ timed_out /\ unfinished # {}) =>
    /\ status = "returned"
    /\ result = final_result(all_studies, compound_name, max_results)

\* C5 as stated: for the same compound and the same mocked clients,
\* search_comprehensive and search_parallel return the same set of records
\* (compared by canonical id, whatever their order).
C5Claim ==
  (run = 2 /\ status = "returned" /\ prev.strategy # strategy) =>
    Ids(result) = Ids(prev.result)

\* C7 as stated, for the ranked output: two searches with the same strategy
\* on the same mocked clients return the same records in the same order.
C7Claim ==
  (run = 2 /\ status = "returned" /\ prev.strategy = strategy) =>
    result = prev.result

\* C8 as stated: whatever the order in which the units of search_parallel
\* arrive, deduplication followed by ranking gives the list returned.
C8Claim ==
  (strategy = "parallel" /\ status = "returned") =>
    \A o \in Orders(DOMAIN futures) :
      final_result(Gathered(o), compound_name, max_results) = result

(***************************************************************************)
(* Claims about the clients (checked under SpecAdapter).                   *)
(***************************************************************************)
\* C4 as stated: any two consecutive provider calls of one client instance
\* start at least rate_limit_delay apart, also when several worker threads
\* run searches of that client at once.
C4Claim ==
  min_gap # None => min_gap[1] >= rate_limit_delay(adapter)

\* C6 as stated: search always returns a list and never raises, and when a
\* provider call of the search failed in transport the list is empty.
C6Original ==
  \A t \in Threads :
    /\ threads[t].out.kind # "raised"
    /\ threads[t].pc = "returned" =>
         /\ threads[t].out.kind = "list"
         /\ threads[t].transport_failures >= 1 => threads[t].out.count = 0

\* C6 as amended: search always returns a list and never raises, whatever
\* transport or parse failure occurs; the list is empty when every provider
\* call the search made failed in transport (a search that makes several
\* provider calls returns the records of those that succeeded).
C6Amended ==
  \A t \in Threads :
    /\ threads[t].out.kind # "raised"
    /\ threads[t].pc = "returned" =>
         /\ threads[t].out.kind = "list"
         /\ threads[t].transport_failures = threads[t].calls => threads[t].out.count = 0

\* of two searches of a client that makes several provider calls, one saw
\* every call fail and returned the empty list, the other saw one call fail
\* and returned the records of another
C6Witness ==
  \E t1, t2 \in Threads :
    /\ threads[t1].pc = "returned"
    /\ threads[t1].calls >= 2
    /\ threads[t1].transport_failures = threads[t1].calls
    /\ threads[t1].out = List(0)
    /\ threads[t2].pc = "returned"
    /\ threads[t2].transport_failures >= 1
    /\ threads[t2].out.kind = "list"
    /\ threads[t2].out.count > 0

(***************************************************************************)
(* Claims about the grader (checked under SpecGrade).                      *)
(***************************************************************************)
\* the number of graded studies the classifier gave one of the types, read
\* from the distribution of types the grade carries
RECURSIVE SumCounts(_, _)
SumCounts(dist, types) ==
  IF types = {} THEN 0
  ELSE LET t == CHOOSE x \in types : TRUE
       IN (IF t \in DOMAIN dist THEN dist[t] ELSE 0) + SumCounts(dist, types \ {t})
CountOf(types) == SumCounts(evidence_grade.study_type_distribution, types)
MetaCount == CountOf({"Meta-Analysis", "Systematic Review with Meta-Analysis"})
RctCount ==
  CountOf({"Randomized Controlled Trial", "Double-Blind RCT", "Placebo-Controlled RCT"})
SysRevCount == CountOf({"Systematic Review"})

\* the decision table of the specification: <<rule, grade, confidence>>, row
\* after row, for meta, rct, sysRev, N and a score
DecisionTable(meta, rct, sysRev, n, score) ==
  << <<meta >= 3 \/ (meta >= 2 /\ AtLeast(score, 85)), "A", 95>>,
     <<meta >= 2 \/ (rct >= 8 /\ AtLeast(score, 80)), "A", 90>>,
     <<meta >= 1 /\ rct >= 5 /\ AtLeast(score, 75), "A", 85>>,
     <<meta >= 1 \/ (rct >= 5 /\ AtLeast(score, 70)), "B", 80>>,
     <<rct >= 3 /\ sysRev >= 1 /\ AtLeast(score, 65), "B", 75>>,
     <<rct >= 3 /\ AtLeast(score, 60), "B", 70>>,
     <<rct >= 2 \/ (rct >= 1 /\ n >= 15 /\ AtLeast(score, 50)), "C", 60>>,
     <<rct >= 1 /\ AtLeast(score, 45), "C", 55>>,
     <<n >= 20 /\ AtLeast(score, 40), "C", 50>>,
     <<n >= 10 /\ AtLeast(score, 30), "D", 40>>,
     <<n >= 5, "D", 35>>,
     <<TRUE, "D", 30>> >>
FirstRow(table) ==
  CHOOSE k \in DOMAIN table : table[k][1] /\ \A j \in 1..(k - 1) : ~table[j][1]
GradedRow ==
  FirstRow(DecisionTable(MetaCount, RctCount, SysRevCount, Len(grade_studies),
                         evidence_grade.quality_score))

\* C11: for a non-empty list of studies the grade and the confidence are
\* those of the first row of the decision table that matches the counts of
\* meta-analyses, RCTs and systematic reviews, the number of studies and the
\* quality score; three or more studies of a meta-analysis type give grade A
\* with confidence 0.95 whatever else the list holds.
C11Theorem ==
  (gradePc = "done" /\ grade_studies # <<>>) =>
    LET table == DecisionTable(MetaCount, RctCount, SysRevCount, Len(grade_studies),
                               evidence_grade.quality_score)
    IN /\ evidence_grade.grade = table[FirstRow(table)][2]
       /\ evidence_grade.confidence = table[FirstRow(table)][3]
       /\ MetaCount >= 3 => evidence_grade.grade = "A" /\ evidence_grade.confidence = 95

\* three systematic reviews with meta-analysis among case reports, with a
\* quality score under 8.5, were graded A with confidence 0.95
C11Witness ==
  /\ gradePc = "done"
  /\ CountOf({"Systematic Review with Meta-Analysis"}) = 3
  /\ CountOf({"Case Report"}) >= 5
  /\ ~AtLeast(evidence_grade.quality_score, 85)
  /\ evidence_grade.grade = "A"
  /\ evidence_grade.confidence = 95

(***************************************************************************)
(* Claims about a search without results (checked under Spec).             *)
(***************************************************************************)
\* every client asked so far raised or returned an empty list
NothingFound == \A k \in MockKeys : mock[k] \in {Unset, Raises, Returns(0)}

\* C12: a search in which every client returns nothing or raises for every
\* term ends by returning the empty list, raising nothing; grading that empty
\* list gives grade D with confidence 0.0, study count 0, every count per
\* type 0 and quality score 0.0, dividing by nothing.
C12Theorem ==
  (pc = "done" /\ ~timed_out /\ NothingFound) =>
    /\ status = "returned"
    /\ result = <<>>
    /\ LET g == grade_evidence(result)
       IN /\ g.grade = "D"
          /\ g.confidence = 0
          /\ g.study_count = 0
          /\ g.rct_count = 0 /\ g.meta_analysis_count = 0 /\ g.review_count = 0
          /\ g.systematic_review_count = 0 /\ g.cohort_study_count = 0
          /\ g.case_control_count = 0 /\ g.animal_study_count = 0
          /\ g.in_vitro_count = 0
          /\ g.study_type_distribution = <<>>
          /\ g.quality_score.num = 0 /\ g.quality_score.den # 0

\* a search asked every client for the name and for a variant; some calls
\* raised, the others returned empty lists, and the search returned []
C12Witness ==
  /\ pc = "done"
  /\ ~timed_out
  /\ \A k \in MockKeys : mock[k] \in {Raises, Returns(0)}
  /\ \E k \in MockKeys : mock[k] = Raises
  /\ \E k \in MockKeys : mock[k] = Returns(0)
  /\ status = "returned"
  /\ result = <<>>

(***************************************************************************)
(* Claims about the quality score (checked under SpecGrade).               *)
(***************************************************************************)
\* the weight table of the specification, per study type
WeightTable ==
  << <<"Meta-Analysis", 15>>, <<"Systematic Review with Meta-Analysis", 14>>,
     <<"Systematic Review", 12>>, <<"Double-Blind RCT", 11>>,
     <<"Placebo-Controlled RCT", 11>>, <<"Randomized Controlled Trial", 10>>,
     <<"Clinical Trial", 8>>, <<"Prospective Cohort Study", 7>>,
     <<"Retrospective Cohort Study", 6>>, <<"Case-Control Study", 5>>,
     <<"Observational Study", 4>>, <<"Review", 4>>, <<"Cross-Sectional Study", 4>>,
     <<"Case Series", 3>>, <<"Animal Study", 3>>, <<"Case Report", 2>>,
     <<"In Vitro Study", 2>> >>
RECURSIVE WeightSumFrom(_)
WeightSumFrom(k) ==
  IF k > Len(WeightTable) THEN 0
  ELSE CountOf({WeightTable[k][1]}) * WeightTable[k][2] + WeightSumFrom(k + 1)
\* tier(N), in halves of a point
TierHalves(n) == IF n >= 20 THEN 3 ELSE IF n >= 10 THEN 2 ELSE IF n >= 5 THEN 1 ELSE 0
\* 30 * N times min(10, weights / (15 N) * 10 + tier(N) + 0.5 * recent / N +
\* min(2 * hi / N, 1)) for the graded studies
ClaimedScoreTimes30N ==
  LET n == Len(grade_studies)
      recent == count_recent(grade_studies)
      hi == count_high_impact_journals(grade_studies)
  IN Min(20 * WeightSumFrom(1) + 15 * n * TierHalves(n) + 15 * recent
           + Min(60 * hi, 30 * n),
         300 * n)

\* C13: the quality score of a non-empty list of N studies is
\* min(10, (sum of weights / (15 N)) * 10 + tier(N) + 0.5 * (recent / N)
\* + min(2 * hi / N, 1)) and lies in [0, 10]; one RCT and two case reports
\* without any bonus score (10 + 2 + 2) / 45 * 10 and are graded D with
\* confidence 0.30.
C13Theorem ==
  (gradePc = "done" /\ grade_studies # <<>>) =>
    LET q == evidence_grade.quality_score
        n == Len(grade_studies)
    IN /\ q.den > 0
       /\ q.num * 30 * n = ClaimedScoreTimes30N * q.den
       /\ q.num >= 0 /\ q.num <= 10 * q.den
       /\ ( /\ n = 3
            /\ CountOf({"Randomized Controlled Trial"}) = 1
            /\ CountOf({"Case Report"}) = 2
            /\ count_recent(grade_studies) = 0
            /\ count_high_impact_journals(grade_studies) = 0 )
          => /\ q.num * 45 = 140 * q.den
             /\ evidence_grade.grade = "D"
             /\ evidence_grade.confidence = 30

\* one RCT of 2018 and two case reports of 2000, none in a listed journal,
\* were graded
C13Witness ==
  /\ gradePc = "done"
  /\ grade_studies = <<GradePool[5], GradePool[6], GradePool[6]>>
  /\ CountOf({"Randomized Controlled Trial"}) = 1
  /\ CountOf({"Case Report"}) = 2
  /\ evidence_grade.recent_studies_count = 0
  /\ evidence_grade.high_impact_journals = 0
  /\ evidence_grade.grade = "D"

(***************************************************************************)
(* Claims about ranking and ids (checked under SpecPure).                  *)
(***************************************************************************)
TitleHasName(study) == IsSubstring(lower(rank_name), lower(study.title))
SameButTitle(a, b) == [a EXCEPT !.title = <<>>] = [b EXCEPT !.title = <<>>]

\* C14: of two ranked records that are the same except that the title of
\* one contains the compound name (in any case) and the title of the other
\* does not, the first scores at least 10 points more and is never placed
\* after the second.
C14Theorem ==
  purePc \in {"ranked", "returned"} =>
    \A i, j \in DOMAIN ranked_studies :
      ( /\ TitleHasName(ranked_studies[i])
        /\ ~TitleHasName(ranked_studies[j])
        /\ SameButTitle(ranked_studies[i], ranked_studies[j]) )
      => /\ calculate_relevance_score(ranked_studies[i], rank_name)
              >= calculate_relevance_score(ranked_studies[j], rank_name) + 100
         /\ i < j

\* two records differing in the title only went in with the one whose title
\* lacks the name first, and came out with the other one first
C14Witness ==
  /\ purePc = "ranked"
  /\ \E i, j \in DOMAIN unique_studies :
       /\ i < j
       /\ unique_studies[i].title # <<>>
       /\ ~TitleHasName(unique_studies[i])
       /\ TitleHasName(unique_studies[j])
       /\ SameButTitle(unique_studies[i], unique_studies[j])
       /\ \E k, l \in DOMAIN ranked_studies :
            /\ k < l
            /\ ranked_studies[k] = unique_studies[j]
            /\ ranked_studies[l] = unique_studies[i]

\* the tables of the specification, in tenths of a point
TypeWeights ==
  { <<"Randomized Controlled Trial", 80>>, <<"Meta-Analysis", 70>>,
    <<"Systematic Review", 60>>, <<"Cohort Study", 50>>, <<"Case-Control Study", 40>>,
    <<"Clinical Trial", 60>>, <<"Review", 30>>, <<"Observational Study", 20>>,
    <<"Animal Study", 10>>, <<"In Vitro Study", 5>> }
SourceWeights ==
  { <<"PubMed", 50>>, <<"Europe PMC", 40>>, <<"ClinicalTrials.gov", 40>>,
    <<"Semantic Scholar", 30>>, <<"CrossRef", 20>>, <<"bioRxiv", 10>>,
    <<"medRxiv", 10>> }
Lookup(table, key) ==
  IF \E e \in table : e[1] = key THEN (CHOOSE e \in table : e[1] = key)[2] ELSE 10
ClaimedScore(study) ==
  LET year == IF study.publication_year = None THEN 0 ELSE study.publication_year[1]
      cited == IF study.citations_count = None THEN 0 ELSE study.citations_count[1]
  IN (IF TitleHasName(study) THEN 100 ELSE 0)
     + (IF IsSubstring(lower(rank_name), lower(study.abstract)) THEN 50 ELSE 0)
     + Lookup(TypeWeights, study.study_type)
     + Lookup(SourceWeights, study.source_database)
     + Min(cited, 50)
     + (IF year >= 2020 THEN 20 ELSE IF year >= 2015 THEN 10 ELSE 0)
IndexIn(list, x) == CHOOSE i \in DOMAIN list : list[i] = x

\* C15: the ranked list holds the deduplicated records in non-increasing
\* order of score (10 for the name in the title, 5 for the name in the
\* abstract, the weight of the study type and of the source, 1 by default,
\* min(0.1 * citations, 5), and 2, 1 or 0 for the year); records of equal
\* score keep the order they had after deduplication; the returned list is
\* the first max_results records of the ranked list.
C15Theorem ==
  purePc = "returned" =>
    /\ Len(ranked_studies) = Len(unique_studies)
    /\ Range(ranked_studies) = Range(unique_studies)
    /\ \A i, j \in DOMAIN ranked_studies :
         i < j =>
           /\ ClaimedScore(ranked_studies[i]) >= ClaimedScore(ranked_studies[j])
           /\ ClaimedScore(ranked_studies[i]) = ClaimedScore(ranked_studies[j])
                => IndexIn(unique_studies, ranked_studies[i])
                     < IndexIn(unique_studies, ranked_studies[j])
    /\ Len(returned_studies) = Min(Len(ranked_studies), pure_max_results)
    /\ \A k \in DOMAIN returned_studies : returned_studies[k] = ranked_studies[k]

\* three records, the last of which scored most and two of which tied, were
\* reordered and cut to two
C15Witness ==
  /\ purePc = "returned"
  /\ Len(unique_studies) = MaxStudies
  /\ ranked_studies # unique_studies
  /\ \E i, j \in DOMAIN ranked_studies :
       i # j /\ ClaimedScore(ranked_studies[i]) = ClaimedScore(ranked_studies[j])
  /\ Len(returned_studies) = 2
  /\ Len(returned_studies) < Len(ranked_studies)

\* C17: the id of a record is a function of its pmid, doi and title alone:
\* derived from the pmid when there is one, else from the doi when there is
\* one, else from the hash of the lowercased, trimmed title; two records
\* with the same pmid have the same id.
C17Theorem ==
  purePc # "start" =>
    \A a, b \in Range(studies) :
      /\ TruthyStr(a.pmid) => get_unique_id(a) = <<"pmid_", a.pmid[1]>>
      /\ (~TruthyStr(a.pmid) /\ TruthyStr(a.doi)) => get_unique_id(a) = <<"doi_", a.doi[1]>>
      /\ (~TruthyStr(a.pmid) /\ ~TruthyStr(a.doi))
           => get_unique_id(a) = <<"title_", md5_hexdigest(lower(strip(a.title)))[1]>>
      /\ (a.pmid = b.pmid /\ a.doi = b.doi /\ a.title = b.title)
           => get_unique_id(a) = get_unique_id(b)
      /\ (TruthyStr(a.pmid) /\ a.pmid = b.pmid) => get_unique_id(a) = get_unique_id(b)

\* two records with the same pmid, one of them with a doi and from another
\* source, got the same id and the later one was dropped; a third record
\* got its id from its title
C17Witness ==
  /\ purePc = "deduplicated"
  /\ \E i, j \in DOMAIN studies :
       /\ i < j
       /\ TruthyStr(studies[i].pmid)
       /\ studies[i].pmid = studies[j].pmid
       /\ studies[i].doi # studies[j].doi
       /\ studies[i].source_database # studies[j].source_database
       /\ get_unique_id(studies[i]) = get_unique_id(studies[j])
       /\ studies[j] \notin Range(unique_studies)
  /\ \E k \in DOMAIN studies : get_unique_id(studies[k])[1] = "title_"

(***************************************************************************)
(* Claims about a whole search (checked under Spec).                       *)
(***************************************************************************)
\* source A returns the trial with pmid 111; source B returns the same
\* trial and a cohort study that has a doi only
ScenarioA == MockStudy(1, Papers[1])
ScenarioB == <<MockStudy(2, Papers[1]), MockStudy(2, Papers[2])>>
ScenarioGathered ==
  /\ Len(all_studies) = 3
  /\ Range(all_studies) = {ScenarioA, ScenarioB[1], ScenarioB[2]}
  /\ IsSubstring(lower(compound_name), lower(ScenarioA.title))

\* C16: a search returns one record per identity found, as far as
\* max_results allows; when two sources return the same pmid and one of
\* them also a record with a doi only, the result holds exactly two
\* records, the randomized trial with the name in its title before the
\* cohort study.
C16Theorem ==
  status = "returned" =>
    /\ \A i, j \in DOMAIN result :
         i # j => get_unique_id(result[i]) # get_unique_id(result[j])
    /\ Ids(result) \subseteq Ids(all_studies)
    /\ Len(result) = Min(Cardinality(Ids(all_studies)), max_results)
    /\ ScenarioGathered =>
         /\ Len(result) = 2
         /\ result[1] \in {ScenarioA, ScenarioB[1]}
         /\ result[1].study_type = "Randomized Controlled Trial"
         /\ result[2] = ScenarioB[2]
         /\ result[2].study_type = "Cohort Study"

\* search_comprehensive gathered the trial from PubMed, then the trial and
\* the cohort study from Europe PMC, and returned the trial and the cohort
\* study
C16Witness ==
  /\ strategy = "comprehensive"
  /\ status = "returned"
  /\ all_studies = <<ScenarioA>> \o ScenarioB
  /\ ScenarioGathered
  /\ ScenarioA.source_database = "PubMed"
  /\ ScenarioB[1].source_database = "Europe PMC"
  /\ get_unique_id(ScenarioA) = get_unique_id(ScenarioB[1])
  /\ result = <<ScenarioA, ScenarioB[2]>>

(***************************************************************************)
(* Claims about the classifier (checked under SpecClassify).               *)
(***************************************************************************)
\* the waterfall of the specification on a lowercased text: <<rule, label>>,
\* step after step
Waterfall(text) ==
  LET has(w) == IsSubstring(w, text)
  IN << <<any_in(meta_terms, text),
          IF has(kw_systematic) THEN "Systematic Review with Meta-Analysis"
          ELSE "Meta-Analysis">>,
        <<has(kw_systematic_review), "Systematic Review">>,
        <<any_in(rct_terms, text),
          IF any_in(kw_double_blind, text) THEN "Double-Blind RCT"
          ELSE IF has(kw_placebo) THEN "Placebo-Controlled RCT"
          ELSE "Randomized Controlled Trial">>,
        <<has(kw_rct) /\ (has(kw_random) \/ has(kw_trial)), "Randomized Controlled Trial">>,
        <<any_in(clinical_terms, text), "Clinical Trial">>,
        <<has(kw_prospective) /\ has(kw_cohort), "Prospective Cohort Study">>,
        <<has(kw_cohort), "Retrospective Cohort Study">>,
        <<any_in(kw_case_control, text), "Case-Control Study">>,
        <<any_in(kw_cross_sectional, text), "Cross-Sectional Study">>,
        <<has(kw_case_series), "Case Series">>,
        <<has(kw_case_report), "Case Report">>,
        <<any_in(animal_terms, text), "Animal Study">>,
        <<any_in(in_vitro_terms, text), "In Vitro Study">>,
        <<has(kw_review), "Review">>,
        <<TRUE, "Observational Study">> >>
\* title + " " + abstract of the classified study, lowercased
ClassText ==
  lower((IF class_study.title = None THEN <<>> ELSE class_study.title[1])
        \o <<" ">>
        \o (IF class_study.abstract = None THEN <<>> ELSE class_study.abstract[1]))
MatchingSteps == {k \in DOMAIN Waterfall(ClassText) : Waterfall(ClassText)[k][1]}

\* C18: the classifier gives a study the label of the first step of the
\* 15-step waterfall that its lowercased title and abstract match, also
\* when they match several steps.
C18Theorem ==
  classPc = "done" =>
    LET steps == Waterfall(ClassText)
    IN class_label = steps[FirstRow(steps)][2]

\* a title and an abstract in mixed case that match the steps of the
\* meta-analysis terms, of the systematic review and of the review were
\* classified by the first of them
C18Witness ==
  /\ classPc = "done"
  /\ class_study.abstract # None
  /\ ClassText # class_study.title[1] \o <<" ">> \o class_study.abstract[1]
  /\ {1, 2, 14} \subseteq MatchingSteps
  /\ class_label = "Systematic Review with Meta-Analysis"

(***************************************************************************)
(* Claims about the deadline of search_parallel (checked under             *)
(* SpecParallel).                                                          *)
(***************************************************************************)
NoRetry == \A i, j \in DOMAIN called : i # j => called[i] # called[j]

\* C19 as stated: once the deadline of search_parallel has expired the
\* search ends, whether or not the units still running ever complete, and
\* no unit is called twice.
C19Claim == [](NoRetry) /\ (timed_out ~> pc = "done")

(***************************************************************************)
(* Claims about the surviving copy (checked under Spec).                   *)
(***************************************************************************)
\* the place of the client that builds records of a source in
\* database_priority
PriorityOf(source) == CHOOSE i \in DOMAIN client_source : client_source[i] = source

\* C20 as stated: of the copies of a study that several sources returned
\* during a search, with either strategy, the one in the result is the copy
\* from the source of highest priority among them.
C20Claim ==
  status = "returned" =>
    \A i \in DOMAIN result :
      \A j \in DOMAIN all_studies :
        get_unique_id(all_studies[j]) = get_unique_id(result[i])
          => PriorityOf(result[i].source_database)
               <= PriorityOf(all_studies[j].source_database)

(***************************************************************************)
(* Claims about the order of the deduplicated list (checked under          *)
(* SpecPure).                                                              *)
(***************************************************************************)
\* C21: the list _deduplicate_studies returns is a subsequence of its input
\* (the kept records in their input order), and the record kept for a
\* canonical id is the first record of the input with that id.
C21Theorem ==
  purePc # "start" =>
    \E f \in [DOMAIN unique_studies -> DOMAIN studies] :
      /\ \A k, l \in DOMAIN unique_studies : k < l => f[k] < f[l]
      /\ \A k \in DOMAIN unique_studies :
           /\ unique_studies[k] = studies[f[k]]
           /\ \A j \in 1..(f[k] - 1) :
                get_unique_id(studies[j]) # get_unique_id(unique_studies[k])

\* the first and the last of three records shared an id without being the
\* same record; the first was kept, before the record between them
C21Witness ==
  /\ purePc = "deduplicated"
  /\ Len(studies) = 3
  /\ get_unique_id(studies[1]) = get_unique_id(studies[3])
  /\ studies[1] # studies[3]
  /\ get_unique_id(studies[1]) # get_unique_id(studies[2])
  /\ unique_studies = <<studies[1], studies[2]>>

(***************************************************************************)
(* Claims about the calls of search_comprehensive (checked under Spec).    *)
(***************************************************************************)
\* the terms client c was asked for so far, in the order of the calls
CallsOf(c) == LET of_c(u) == u[1] = c IN SelectSeq(called, of_c)
\* the number of records client c returned for its first t terms
AccumulatedFrom(c, t) == Len(Gathered([i \in 1..t |-> <<c, i>>]))
\* search_comprehensive is through with client c
ClientDone(c) ==
  /\ CallsOf(c) # <<>>
  /\ status = "returned" \/ \E i \in DOMAIN called : called[i][1] > c
\* the terms of every client are asked in list order, each at most once; a
\* term after the first is asked only while the client's records are fewer
\* than threshold, and a client is left with terms unasked only when its
\* records reached threshold
TermsUntil(threshold) ==
  strategy = "comprehensive" =>
    \A c \in Clients :
      /\ \A i \in DOMAIN CallsOf(c) : CallsOf(c)[i] = <<c, i>>
      /\ \A i \in 2..Len(CallsOf(c)) : AccumulatedFrom(c, i - 1) < threshold
      /\ ClientDone(c) =>
           \/ Len(CallsOf(c)) = Len(search_terms)
           \/ AccumulatedFrom(c, Len(CallsOf(c))) >= threshold

\* C22 as stated: search_comprehensive asks a client for the terms in list
\* order and asks it for no further term once the records it returned
\* reach min_per_database; a client that never reaches it is asked for
\* every term exactly once.
C22Original == TermsUntil(min_per_database)

\* C22 as amended: search_comprehensive asks a client for the terms in list
\* order and asks it for no further term once the records it returned
\* reach twice min_per_database; a client that never reaches that is asked
\* for every term exactly once.
C22Amended == TermsUntil(2 * min_per_database)

\* of two terms, the first client was asked for the first only, having
\* returned twice min_per_database records; the second client returned
\* min_per_database records for the first term and was asked for the second
C22Witness ==
  /\ strategy = "comprehensive"
  /\ status = "returned"
  /\ Len(search_terms) = 2
  /\ called = <<<<1, 1>>, <<2, 1>>, <<2, 2>>>>
  /\ AccumulatedFrom(1, 1) = 2 * min_per_database
  /\ AccumulatedFrom(2, 1) = min_per_database

\* the clients are asked in the order of database_priority, a client being
\* asked only after the client before it
InPriorityOrder ==
  /\ called # <<>> => called[1][1] = 1
  /\ \A i \in 1..(Len(called) - 1) :
       called[i + 1][1] \in {called[i][1], called[i][1] + 1}
\* the number of records the first i calls returned
RawCount(i) == Len(Gathered(SubSeq(called, 1, i)))

\* C23 as stated: search_comprehensive asks the clients in priority order,
\* one call after the other, and issues no call once the records returned
\* so far number max_results.
C23Original ==
  strategy = "comprehensive" =>
    /\ InPriorityOrder
    /\ \A i \in 2..Len(called) : RawCount(i - 1) < max_results

\* C23 as amended: search_comprehensive asks the clients in priority order,
\* one call after the other, and looks at the total when it is through with
\* a client: it goes on to the next client only while the records returned
\* so far are fewer than max_results, and it leaves a client unasked only
\* when they number max_results.
C23Amended ==
  strategy = "comprehensive" =>
    /\ InPriorityOrder
    /\ \A i \in 2..Len(called) :
         called[i][1] # called[i - 1][1] => RawCount(i - 1) < max_results
    /\ (status = "returned" /\ called # <<>> /\ called[Len(called)][1] < NumClients)
         => RawCount(Len(called)) >= max_results

\* the first client returned max_results records over two terms and the
\* search returned without asking the second client
C23Witness ==
  /\ strategy = "comprehensive"
  /\ status = "returned"
  /\ called = <<<<1, 1>>, <<1, 2>>>>
  /\ RawCount(1) < max_results
  /\ RawCount(2) = max_results
  /\ NumClients > 1

(***************************************************************************)
(* Claims about the list the units' records are gathered in (checked       *)
(* under SpecParallel).                                                    *)
(***************************************************************************)
Yielded == {u \in DOMAIN futures : futures[u] = "yielded"}

\* C24: in search_parallel only the calling thread writes all_studies, one
\* yielded future at a time, the worker threads handing their lists over
\* through their futures: whatever the interleaving, all_studies holds the
\* whole list of every unit yielded so far, and nothing else.
C24Theorem ==
  /\ [](strategy = "parallel" => \E o \in Orders(Yielded) : all_studies = Gathered(o))
  /\ [][all_studies' # all_studies => \E u \in Units : Collect(u)]_vars

\* the calling thread had gathered the records of one unit while a second
\* unit had completed with records and a third was still running
C24Witness ==
  /\ strategy = "parallel"
  /\ pc = "par_collect"
  /\ \E u \in Yielded : UnitResult(u) # <<>>
  /\ \E u \in DOMAIN futures : futures[u] = "done" /\ UnitResult(u) # <<>>
  /\ \E u \in DOMAIN futures : futures[u] = "running"
  /\ all_studies # <<>>

(***************************************************************************)
(* Claims about the adapters' parsers (checked under SpecParse).           *)
(***************************************************************************)
\* the adapters whose provider supplies no study type
UntypedProviders == {"PubMed", "Europe PMC", "Semantic Scholar", "CrossRef"}
\* the classifier waterfall on the title and abstract of the record parsed
WaterfallLabel ==
  classify_text(lower(parsed[1].title \o <<" ">> \o parsed[1].abstract))

\* C25 as stated: every record parsed by the PubMed, Europe PMC, Semantic
\* Scholar or CrossRef adapter carries the study_type the shared classifier
\* waterfall gives for its title and abstract.
C25Claim ==
  (parsePc = "done" /\ parsed # None /\ parse_client \in UntypedProviders)
    => parsed[1].study_type = WaterfallLabel

\* C26 as stated: every record a parser returns has a pmid, a doi or a
\* non-empty title.
C26Claim ==
  (parsePc = "done" /\ parsed # None)
    => \/ TruthyStr(parsed[1].pmid)
       \/ TruthyStr(parsed[1].doi)
       \/ parsed[1].title # <<>>

(***************************************************************************)
(* A further claim about the synonym expansion (checked under SpecSyn).    *)
(***************************************************************************)
\* the candidate variants of name_in before cleaning, sorting and truncation
Candidates ==
  seed_variations(name_in)
    \o (IF InSynonymDb(name_in) THEN SynonymsOf(name_in) ELSE <<>>)
    \o generate_algorithmic_variations(name_in)
FirstWord == split(name_in)[1]

\* C27 as stated: for every input of two or more whitespace-separated words
\* whose first word is longer than 4 characters, the first word alone is
\* among the candidate variants.
C27Claim ==
  (synPc = "done" /\ Len(split(name_in)) >= 2 /\ Len(FirstWord) > MinFirstWordLen)
    => FirstWord \in Range(Candidates)

(***************************************************************************)
(* A further claim about the deduplication (checked under SpecPure).       *)
(***************************************************************************)
\* the records of studies whose canonical id no earlier record has
FirstOfId(j) ==
  \A i \in 1..(j - 1) : get_unique_id(studies[i]) # get_unique_id(studies[j])
HasPmid(s) == TruthyStr(s.pmid)

\* C30: deduplication never merges records of different canonical ids: the
\* ids of the output are the ids of the input, one record for each; two
\* records with the same doi, or the same title, one with a pmid and the
\* other without, have different ids and both ids are kept; and a record
\* whose id no earlier record has is never removed, by the title check
\* either.
C30Theorem ==
  purePc # "start" =>
    /\ Ids(unique_studies) = Ids(studies)
    /\ Len(unique_studies) = Cardinality(Ids(studies))
    /\ \A a, b \in Range(studies) :
         ( /\ HasPmid(a) /\ ~HasPmid(b)
           /\ (TruthyStr(a.doi) /\ a.doi = b.doi) \/ a.title = b.title )
           => /\ get_unique_id(a) # get_unique_id(b)
              /\ {get_unique_id(a), get_unique_id(b)} \subseteq Ids(unique_studies)
    /\ \A j \in DOMAIN studies : FirstOfId(j) => studies[j] \in Range(unique_studies)

\* three records were all kept: the first has a pmid and the doi of the
\* second, the second has no pmid and the title of the third, the third has
\* neither pmid nor doi and so an id made from its title
C30Witness ==
  /\ purePc = "deduplicated"
  /\ Len(studies) = 3
  /\ unique_studies = studies
  /\ HasPmid(studies[1]) /\ ~HasPmid(studies[2])
  /\ TruthyStr(studies[1].doi) /\ studies[1].doi = studies[2].doi
  /\ studies[2].title = studies[3].title
  /\ startswith_title(get_unique_id(studies[3]))

(***************************************************************************)
(* Further claims about the grader (checked under SpecGrade).              *)
(***************************************************************************)
\* the rows with nothing but the columns title, abstract, publication_year
\* and journal
RECURSIVE ReadColumns(_)
ReadColumns(ss) ==
  IF ss = <<>> THEN <<>>
  ELSE <<Study(Head(ss).title, Head(ss).abstract, Head(ss).publication_year,
               Head(ss).journal)>> \o ReadColumns(Tail(ss))

\* C28: the grade depends only on the title, abstract, publication_year and
\* journal of each record: a list of records gets the grade of the list that
\* differs from it only in the stored study_type, source database, pmid,
\* doi, authors and citation count.
C28Theorem ==
  gradePc = "done" => evidence_grade = grade_evidence(ReadColumns(grade_studies))

\* a list was graded that holds records with the stored study_type
\* Meta-Analysis, a pmid and a doi whose text the classifier does not take
\* for a meta-analysis, next to records without stored columns
C28Witness ==
  /\ gradePc = "done"
  /\ ReadColumns(grade_studies) # grade_studies
  /\ \E i, j \in DOMAIN grade_studies :
       /\ grade_studies[i].study_type = Some("Meta-Analysis")
       /\ grade_studies[i].pmid # None
       /\ classify_study_type_advanced(grade_studies[i]) = "Case Report"
       /\ grade_studies[j].study_type = None
  /\ evidence_grade.meta_analysis_count = 0

\* C29: a list holding at least one record of a meta-analysis type is graded
\* A or B; a list holding no record of a meta-analysis type and none of a
\* trial type is graded C or D, and C only when it has at least 20 records
\* and a quality_score of at least 4.
C29Theorem ==
  gradePc = "done" =>
    /\ MetaCount >= 1 => evidence_grade.grade \in {"A", "B"}
    /\ (MetaCount = 0 /\ RctCount = 0) =>
         /\ evidence_grade.grade \in {"C", "D"}
         /\ evidence_grade.grade = "C" =>
              /\ Len(grade_studies) >= 20
              /\ AtLeast(evidence_grade.quality_score, 40)

\* a list of more than 20 records, one of them a meta-analysis and none a
\* trial, with a quality_score under 4, was graded B
C29Witness ==
  /\ gradePc = "done"
  /\ MetaCount = 1
  /\ RctCount = 0
  /\ Len(grade_studies) > 20
  /\ ~AtLeast(evidence_grade.quality_score, 40)
  /\ evidence_grade.grade = "B"


====
